---- MODULE Spec2Model ----
(***************************************************************************)
(* Hybrid skill extraction and discovery pipeline of Skill-Hunt            *)
(* (src/etl/skill_extractor): the taxonomy matcher (fast_path.py), the     *)
(* GLiNER discovery backend (slow_path.py), the hybrid orchestrator        *)
(* (hybrid.py) and the discovery lifecycle manager (skill_discovery.py).   *)
(*                                                                         *)
(* Strings are sequences of one-character strings, so that lower(),        *)
(* strip() and len() are computed.  Confidences are integers in            *)
(* thousandths; an average is an exact fraction <<p, q>> of thousandths    *)
(* (the floating-point rounding of the running mean is not modelled).      *)
(***************************************************************************)
EXTENDS Integers, Sequences, FiniteSets, TLC

----------------------------------------------------------------------------
(* Bounds of the model *)

\* calls on one orchestrator, under every configuration (Spec)
MaxCalls == 2
\* calls on one orchestrator in the promotion runs (SpecPromo)
MaxDocs == 4
\* accepted record calls on one lifecycle manager (SpecMgr)
MaxRecords == 3

----------------------------------------------------------------------------
(* Strings *)

UpperChars == <<"B", "D", "J", "P", "R", "S", "V", "Y">>
LowerChars == <<"b", "d", "j", "p", "r", "s", "v", "y">>

\* str.lower() on one character
LowerChar(c) ==
    IF \E i \in 1..Len(UpperChars) : UpperChars[i] = c
    THEN LowerChars[CHOOSE i \in 1..Len(UpperChars) : UpperChars[i] = c]
    ELSE c

\* str.lower()
Lower(s) == [i \in 1..Len(s) |-> LowerChar(s[i])]

RECURSIVE LStrip(_)
LStrip(s) == IF s # <<>> /\ Head(s) = " " THEN LStrip(Tail(s)) ELSE s

RECURSIVE RStrip(_)
RStrip(s) ==
    IF s # <<>> /\ s[Len(s)] = " " THEN RStrip(SubSeq(s, 1, Len(s) - 1)) ELSE s

\* str.strip()
Strip(s) == RStrip(LStrip(s))

\* the names used as inputs
nPy   == <<"P", "y">>
npy   == <<"p", "y">>
nPY   == <<"P", "Y">>
nJv   == <<"J", "v">>
njs   == <<"j", "s">>
nDb   == <<"D", "b">>
ndb   == <<"d", "b">>
nMl   == <<"M", "l">>
nData == <<"d", "a", "t", "a">>
nR    == <<"R">>
nRsp  == <<" ", "R", " ">>
nDbsp == <<" ", "D", "b">>
nNone == <<>>

----------------------------------------------------------------------------
(* Generic helpers on sequences *)

Range(s) == {s[i] : i \in 1..Len(s)}

RECURSIVE SumSeq(_)
SumSeq(s) == IF s = <<>> THEN 0 ELSE Head(s) + SumSeq(Tail(s))

SeqUpTo(S, n) == UNION {[1..k -> S] : k \in 0..n}

Min(a, b) == IF a <= b THEN a ELSE b

\* list.sort(key = ..., reverse = True) is stable: s sorted by descending keys[i],
\* elements with equal keys staying in their order.  InsertIdx places the index
\* i (later in s than every index of p) behind all indices whose key is >= its own.
RECURSIVE InsertIdx(_, _, _)
InsertIdx(i, p, keys) ==
    IF p = <<>> THEN <<i>>
    ELSE IF keys[Head(p)] >= keys[i]
         THEN <<Head(p)>> \o InsertIdx(i, Tail(p), keys)
         ELSE <<i>> \o p

RECURSIVE SortIdx(_, _)
SortIdx(n, keys) ==
    IF n = 0 THEN <<>> ELSE InsertIdx(n, SortIdx(n - 1, keys), keys)

SortDesc(s, keys) ==
    LET p == SortIdx(Len(s), keys) IN [i \in 1..Len(s) |-> s[p[i]]]

----------------------------------------------------------------------------
(* State *)

VARIABLES
    \* HybridConfig (hybrid.py 26-44): fixed at construction
    config,
    \* FastPathExtractor (fast_path.py 39-41); fast_path = FALSE is "self.fast_path = None"
    fast_path, skills, patterns, known_skill_names,
    \* SlowPathExtractor (slow_path.py 119-121): _model loaded or not; _available in
    \* {"none", "true", "false"} (the cached availability)
    slow_model, slow_available,
    \* what the last is_available() call on the backend returned ("none" before the
    \* first call): a record of the calls, no field of the program
    answered,
    \* the threads that are inside record_discovery: th[t] is thread t's position
    \* (pc), its arguments and the values it has loaded; done lists the confidences
    \* of the calls that have returned (a record of the calls, no field of the
    \* program)
    threads,
    \* SkillDiscoveryManager (skill_discovery.py 60-63): the dict discovered_skills as
    \* the sequence of its values in insertion order, each with its key; clock counts
    \* the datetime.now() reads
    discovered_skills, clock,
    \* the durable collaborators: the taxonomy JSON file's skills list and the rows
    \* of staging.dim_skills
    taxonomy_file, dim_skills,
    \* HybridSkillExtractor (hybrid.py 107-117)
    stats, extraction_counter, mode,
    \* the last call: its name, return value and what it did; calls counts the calls
    last, calls

vars == <<config, fast_path, skills, patterns, known_skill_names, slow_model,
          slow_available, answered, threads, discovered_skills, clock, taxonomy_file, dim_skills,
          stats, extraction_counter, mode, last, calls>>

----------------------------------------------------------------------------
(* Taxonomy Matcher: fast_path.py *)

\* the taxonomy store the matcher is loaded from: names unique case-insensitively
TaxonomyData ==
    << [name |-> nPy, category |-> "Programming Language", subcategory |-> "",
        aliases |-> <<>>],
       [name |-> nJv, category |-> "Programming Language", subcategory |-> "Web",
        aliases |-> <<njs>>] >>

\* _compile_pattern for a term outside special_terms: \b<term>\b, IGNORECASE
compile_pattern(term) == [kind |-> "word", term |-> term]

\* \w of the re module on the characters the inputs use: letters, digits and the
\* underscore are word characters, the blank and the punctuation are not
IsWordChar(c) == c \notin {" ", "#", ".", "(", ",", "-", "+", "/"}

\* len(pattern.findall(text)) for the pattern \b<term>\b with IGNORECASE of a
\* non-empty term, on a text given character by character: \b holds between
\* positions i and i + 1 when exactly one of the two characters is a word character
\* (the text's ends counting as non-word); the scan goes left to right and resumes
\* after each match
findall(term, text) ==
    LET word(i)     == i >= 1 /\ i <= Len(text) /\ IsWordChar(text[i])
        boundary(i) == word(i) # word(i + 1)
        matchAt(i)  == /\ i + Len(term) - 1 <= Len(text)
                       /\ Lower(SubSeq(text, i, i + Len(term) - 1)) = Lower(term)
                       /\ boundary(i - 1)
                       /\ boundary(i + Len(term) - 1)
        RECURSIVE scan(_)
        scan(i)     == IF i + Len(term) - 1 > Len(text) THEN 0
                       ELSE IF matchAt(i) THEN 1 + scan(i + Len(term))
                       ELSE scan(i + 1)
    IN scan(1)

\* the patterns of one entry: its name, then its aliases, all for the canonical name
EntryPatterns(name, aliases) ==
    [i \in 1..(1 + Len(aliases)) |->
        [pattern |-> compile_pattern((<<name>> \o aliases)[i]), canonical |-> name]]

SkillInfo(e) == [name |-> e.name, category |-> e.category, subcategory |-> e.subcategory]

\* d[k] = v on a dict d (a function on its set of keys)
DictSet(d, k, v) == [x \in (DOMAIN d) \cup {k} |-> IF x = k THEN v ELSE d[x]]

\* _load_taxonomy_data: <<skills, patterns, known_skill_names>> after loading data
RECURSIVE load_taxonomy_data(_)
load_taxonomy_data(data) ==
    IF data = <<>> THEN << <<>>, <<>>, {} >>
    ELSE LET n    == Len(data)
             e    == data[n]
             rest == load_taxonomy_data(SubSeq(data, 1, n - 1))
             key  == Lower(e.name)
         IN << DictSet(rest[1], key, SkillInfo(e)),
               rest[2] \o EntryPatterns(e.name, e.aliases),
               rest[3] \cup {key} >>

\* a text is its words (maximal runs of identifier characters) and the number of
\* its other characters; len(text.strip()) counts both
TextLen(text) == SumSeq([i \in 1..Len(text.words) |-> Len(text.words[i])]) + text.filler

\* len(pattern.findall(text)) for a word pattern: the words equal to the term,
\* letter case ignored
CountMatches(p, text) ==
    Cardinality({i \in 1..Len(text.words) : Lower(text.words[i]) = Lower(p.term)})

\* the dict found_skills (canonical_name -> count) after the first n patterns, as
\* the sequence of its items in insertion order
RECURSIVE FoundSkills(_, _, _)
FoundSkills(pats, n, text) ==
    IF n = 0 THEN <<>>
    ELSE LET found == FoundSkills(pats, n - 1, text)
             c     == CountMatches(pats[n].pattern, text)
             name  == pats[n].canonical
         IN IF c = 0 THEN found
            ELSE IF \E i \in 1..Len(found) : found[i].name = name
                 THEN [i \in 1..Len(found) |->
                          IF found[i].name = name
                          THEN [name |-> name, count |-> found[i].count + c]
                          ELSE found[i]]
                 ELSE Append(found, [name |-> name, count |-> c])

\* self.skills.get(name.lower(), {}) with the defaults of its two reads
GetSkillInfo(sk, name) ==
    IF Lower(name) \in DOMAIN sk THEN sk[Lower(name)]
    ELSE [name |-> name, category |-> "Unknown", subcategory |-> ""]

\* FastPathExtractor.extract_skills
fast_extract_skills(sk, pats, text) ==
    IF TextLen(text) = 0 THEN <<>>
    ELSE LET found   == FoundSkills(pats, Len(pats), text)
             results == [i \in 1..Len(found) |->
                            [skill_name        |-> found[i].name,
                             category          |-> GetSkillInfo(sk, found[i].name).category,
                             subcategory       |-> GetSkillInfo(sk, found[i].name).subcategory,
                             mention_count     |-> found[i].count,
                             extraction_method |-> "fast_path"]]
         IN SortDesc(results, [i \in 1..Len(results) |-> results[i].mention_count])

\* FastPathExtractor.is_known_skill
is_known_skill(known, skill_name) == Lower(skill_name) \in known

\* add_skill leaving known_skill_names as it was
add_skill_unknown(sk, pats, known, name, category, subcategory) ==
    << DictSet(sk, Lower(name),
               [name |-> name, category |-> category, subcategory |-> subcategory]),
       pats \o EntryPatterns(name, <<>>),
       known >>

\* FastPathExtractor.add_skill(name, category, subcategory), aliases = []:
\* <<skills, patterns, known_skill_names>> afterwards
add_skill(sk, pats, known, name, category, subcategory) ==
    << DictSet(sk, Lower(name),
               [name |-> name, category |-> category, subcategory |-> subcategory]),
       pats \o EntryPatterns(name, <<>>),
       known \cup {Lower(name)} >>

----------------------------------------------------------------------------
(* Discovery Backend: slow_path.py *)

\* scores are in ten-thousandths, confidences in thousandths
MIN_TEXT_LENGTH == 50
GLINER_MIN_CONFIDENCE == 5000

\* round(score, 3)
Round3(score) == (score + 5) \div 10

\* LABEL_TO_CATEGORY.get(label, "Other"), for the labels the inputs use
LabelToCategory(label) ==
    CASE label = "programming language"       -> "Programming Language"
      [] label = "database"                   -> "Database"
      [] label = "data warehouse"             -> "Database"
      [] label = "machine learning framework" -> "Machine Learning"
      [] OTHER                                -> "Other"

\* _is_generic_term, for the generic terms the inputs use
GenericTerms == {nData}
is_generic_term(term) == Lower(term) \in GenericTerms

\* the loop of SlowPathExtractor.extract_skills over the model's entities:
\* <<skills, seen_skills>> after the first n entities
RECURSIVE ProcessEntities(_, _)
ProcessEntities(entities, n) ==
    IF n = 0 THEN << <<>>, {} >>
    ELSE LET prev       == ProcessEntities(entities, n - 1)
             entity     == entities[n]
             skill_name == Strip(entity.text)
             skill_key  == Lower(skill_name)
         IN IF entity.score < GLINER_MIN_CONFIDENCE THEN prev
            ELSE IF Len(skill_name) < 2 THEN prev
            ELSE IF skill_key \in prev[2] THEN prev
            ELSE IF is_generic_term(skill_name)
                 THEN << prev[1], prev[2] \cup {skill_key} >>
                 ELSE << Append(prev[1],
                                [skill_name        |-> skill_name,
                                 category          |-> LabelToCategory(entity.label),
                                 subcategory       |-> entity.label,
                                 confidence        |-> Round3(entity.score),
                                 extraction_method |-> "gliner",
                                 verified          |-> FALSE]),
                         prev[2] \cup {skill_key} >>

\* an entity on which the loop raises: its 'text' is None, so .strip() (line 207)
\* is an AttributeError
EntityRaises(entity) == "text_is_none" \in DOMAIN entity

\* the entities before the first one the loop raises on
BeforeRaise(entities) ==
    SubSeq(entities, 1,
           (CHOOSE i \in 1..Len(entities) :
                /\ EntityRaises(entities[i])
                /\ \A j \in 1..(i - 1) : ~EntityRaises(entities[j])) - 1)

\* slow_extract_skills keeping the skills found before an entity raised
slow_extract_skills_partial(enabled, text, prediction) ==
    IF ~enabled THEN <<>>
    ELSE IF TextLen(text) < MIN_TEXT_LENGTH THEN <<>>
    ELSE IF ~prediction.ok THEN <<>>
    ELSE IF \E i \in 1..Len(prediction.entities) : EntityRaises(prediction.entities[i])
    THEN ProcessEntities(BeforeRaise(prediction.entities),
                         Len(BeforeRaise(prediction.entities)))[1]
    ELSE ProcessEntities(prediction.entities, Len(prediction.entities))[1]

\* SlowPathExtractor.extract_skills on a backend whose model is loaded: prediction
\* is what model.predict_entities does on this text (it raises when ~prediction.ok).
\* The try (lines 192-244) covers the prediction and the loop: any exception,
\* also one raised on a later entity, makes the result []
slow_extract_skills(enabled, text, prediction) ==
    IF ~enabled THEN <<>>
    ELSE IF TextLen(text) < MIN_TEXT_LENGTH THEN <<>>
    ELSE IF ~prediction.ok THEN <<>>
    ELSE IF \E i \in 1..Len(prediction.entities) : EntityRaises(prediction.entities[i])
    THEN <<>>
    ELSE ProcessEntities(prediction.entities, Len(prediction.entities))[1]

----------------------------------------------------------------------------
(* Discovery Lifecycle Manager: skill_discovery.py *)

MIN_OCCURRENCES_FOR_PROMOTION == 3
MIN_CONFIDENCE_FOR_PROMOTION == 750
DEFAULT_CONFIDENCE == 800
MAX_SAMPLE_CONTEXTS == 5
SAMPLE_CONTEXT_LENGTH == 100

RECURSIVE GCD(_, _)
GCD(a, b) == IF b = 0 THEN a ELSE GCD(b, a % b)

\* the fraction p/q in lowest terms
Frac(p, q) == LET g == GCD(p, q) IN IF g = 0 THEN <<0, 1>> ELSE <<p \div g, q \div g>>

\* a >= c for a fraction a and an integer c
FracGeq(a, c) == a[1] >= c * a[2]

\* RunningMean weighting the old average by the count already incremented
RunningMeanNewCount(avg, n, confidence) ==
    Frac(avg[1] * n + confidence * avg[2], avg[2] * n)

\* (avg * (n - 1) + confidence) / n
RunningMean(avg, n, confidence) == Frac(avg[1] * (n - 1) + confidence * avg[2], avg[2] * n)

\* _normalize_skill_name
normalize_skill_name(name) == Lower(Strip(name))

\* skill.get('skill_name', ''), skill.get('confidence', 0.8)
GetSkillName(skill) == IF "skill_name" \in DOMAIN skill THEN skill.skill_name ELSE <<>>
GetConfidence(skill) ==
    IF "confidence" \in DOMAIN skill THEN skill.confidence ELSE DEFAULT_CONFIDENCE

HasKey(ds, key) == \E i \in 1..Len(ds) : ds[i].key = key
IndexOf(ds, key) == CHOOSE i \in 1..Len(ds) : ds[i].key = key

\* UpdateExisting without the increment of occurrence_count
UpdateExistingNoCount(existing, confidence, context, now) ==
    [existing EXCEPT
        !.last_seen = now,
        !.avg_confidence = RunningMean(existing.avg_confidence,
                                       existing.occurrence_count, confidence),
        !.sample_contexts =
            IF context > 0 /\ Len(existing.sample_contexts) < MAX_SAMPLE_CONTEXTS
            THEN Append(existing.sample_contexts, Min(context, SAMPLE_CONTEXT_LENGTH))
            ELSE existing.sample_contexts]

\* the update of an existing DiscoveredSkill on a repeat sighting (lines 94-103)
UpdateExisting(existing, confidence, context, now) ==
    LET n == existing.occurrence_count + 1
    IN [existing EXCEPT
           !.occurrence_count = n,
           !.last_seen = now,
           !.avg_confidence = RunningMean(existing.avg_confidence, n, confidence),
           !.sample_contexts =
               IF context > 0 /\ Len(existing.sample_contexts) < MAX_SAMPLE_CONTEXTS
               THEN Append(existing.sample_contexts, Min(context, SAMPLE_CONTEXT_LENGTH))
               ELSE existing.sample_contexts]

\* the DiscoveredSkill of a first sighting (lines 107-116)
NewDiscovery(key, name, skill, confidence, context, now) ==
    [key              |-> key,
     name             |-> name,
     category         |-> IF "category" \in DOMAIN skill THEN skill.category ELSE "Other",
     subcategory      |-> IF "subcategory" \in DOMAIN skill THEN skill.subcategory ELSE "",
     first_seen       |-> now,
     last_seen        |-> now,
     occurrence_count |-> 1,
     avg_confidence   |-> <<confidence, 1>>,
     sample_contexts  |-> IF context > 0
                          THEN <<Min(context, SAMPLE_CONTEXT_LENGTH)>> ELSE <<>>,
     is_promoted      |-> FALSE]

\* record_discovery testing the length of the name before it is stripped
record_discovery_unstripped(ds, clk, skill, context) ==
    LET name       == Strip(GetSkillName(skill))
        key        == normalize_skill_name(name)
        confidence == GetConfidence(skill)
    IN IF Len(GetSkillName(skill)) < 2
       THEN [ds |-> ds, clock |-> clk, ret |-> FALSE]
       ELSE IF HasKey(ds, key)
            THEN [ds    |-> [ds EXCEPT ![IndexOf(ds, key)] =
                                UpdateExisting(@, confidence, context, clk + 1)],
                  clock |-> clk + 1,
                  ret   |-> FALSE]
            ELSE [ds    |-> Append(ds, NewDiscovery(key, name, skill, confidence,
                                                    context, clk + 1)),
                  clock |-> clk + 1,
                  ret   |-> TRUE]

\* SkillDiscoveryManager.record_discovery on the collection ds at clock clk; a
\* context is its length in characters
record_discovery(ds, clk, skill, context) ==
    LET name       == Strip(GetSkillName(skill))
        key        == normalize_skill_name(name)
        confidence == GetConfidence(skill)
    IN IF Len(name) < 2
       THEN [ds |-> ds, clock |-> clk, ret |-> FALSE]
       ELSE IF HasKey(ds, key)
            THEN [ds    |-> [ds EXCEPT ![IndexOf(ds, key)] =
                                UpdateExisting(@, confidence, context, clk + 1)],
                  clock |-> clk + 1,
                  ret   |-> FALSE]
            ELSE [ds    |-> Append(ds, NewDiscovery(key, name, skill, confidence,
                                                    context, clk + 1)),
                  clock |-> clk + 1,
                  ret   |-> TRUE]

\* SkillDiscoveryManager.record_discoveries_batch over the first n skills
RECURSIVE record_discoveries_batch(_, _, _, _, _)
record_discoveries_batch(ds, clk, skillList, n, context) ==
    IF n = 0 THEN [ds |-> ds, clock |-> clk, new_count |-> 0, updated_count |-> 0]
    ELSE LET prev == record_discoveries_batch(ds, clk, skillList, n - 1, context)
             r    == record_discovery(prev.ds, prev.clock, skillList[n], context)
         IN [ds            |-> r.ds,
             clock         |-> r.clock,
             new_count     |-> prev.new_count + (IF r.ret THEN 1 ELSE 0),
             updated_count |-> prev.updated_count + (IF r.ret THEN 0 ELSE 1)]

\* IsCandidate without the test of is_promoted
IsCandidatePromoted(skill) ==
    /\ skill.occurrence_count >= MIN_OCCURRENCES_FOR_PROMOTION
    /\ FracGeq(skill.avg_confidence, MIN_CONFIDENCE_FOR_PROMOTION)

\* IsCandidate with the confidence threshold exclusive
IsCandidateStrict(skill) ==
    /\ ~skill.is_promoted
    /\ skill.occurrence_count >= MIN_OCCURRENCES_FOR_PROMOTION
    /\ skill.avg_confidence[1] > MIN_CONFIDENCE_FOR_PROMOTION * skill.avg_confidence[2]

\* the test of get_promotion_candidates on one DiscoveredSkill (lines 148-152)
IsCandidate(skill) ==
    /\ ~skill.is_promoted
    /\ skill.occurrence_count >= MIN_OCCURRENCES_FOR_PROMOTION
    /\ FracGeq(skill.avg_confidence, MIN_CONFIDENCE_FOR_PROMOTION)

\* the candidates list before sorting: the first n values of the dict, filtered
RECURSIVE FilterCandidates(_, _)
FilterCandidates(ds, n) ==
    IF n = 0 THEN <<>>
    ELSE IF IsCandidate(ds[n])
         THEN Append(FilterCandidates(ds, n - 1), ds[n])
         ELSE FilterCandidates(ds, n - 1)

\* SkillDiscoveryManager.get_promotion_candidates
get_promotion_candidates(ds) ==
    LET candidates == FilterCandidates(ds, Len(ds))
    IN SortDesc(candidates,
                [i \in 1..Len(candidates) |-> candidates[i].occurrence_count])

\* SkillDiscoveryManager.get_stats: read-only; avg_confidence is rounded to two
\* places (hundredths, a tie going to the even one)
get_stats(ds) ==
    LET unpromoted(s) == ~s.is_promoted
        promoted(s)   == s.is_promoted
        pending       == SelectSeq(ds, unpromoted)
        sorted        == SortDesc(pending,
                                  [i \in 1..Len(pending) |-> pending[i].occurrence_count])
        round2(f)     == LET q == (f[1] \div (10 * f[2]))
                             r == 2 * (f[1] % (10 * f[2]))
                         IN IF r > 10 * f[2] \/ (r = 10 * f[2] /\ q % 2 = 1)
                            THEN q + 1 ELSE q
    IN [total_discoveries |-> Len(ds),
        promoted_count    |-> Len(SelectSeq(ds, promoted)),
        pending_promotion |-> Len(get_promotion_candidates(ds)),
        top_pending       |->
            [i \in 1..Min(Len(sorted), 10) |->
                [name           |-> sorted[i].name,
                 category       |-> sorted[i].category,
                 occurrences    |-> sorted[i].occurrence_count,
                 avg_confidence |-> round2(sorted[i].avg_confidence)]]]

\* SkillDiscoveryManager.export_discoveries: read-only, one dict per value of
\* discovered_skills, in the dict's order
export_discoveries(ds) ==
    [i \in 1..Len(ds) |->
        [name             |-> ds[i].name,
         category         |-> ds[i].category,
         subcategory      |-> ds[i].subcategory,
         occurrence_count |-> ds[i].occurrence_count,
         avg_confidence   |-> ds[i].avg_confidence,
         first_seen       |-> ds[i].first_seen,
         last_seen        |-> ds[i].last_seen,
         is_promoted      |-> ds[i].is_promoted,
         sample_contexts  |-> ds[i].sample_contexts]]

\* _add_to_taxonomy_file comparing the names as they are spelled
add_to_taxonomy_file_case_sensitive(file, skill) ==
    IF \E i \in 1..Len(file) : file[i].name = skill.name
    THEN file
    ELSE Append(file, [name              |-> skill.name,
                       category          |-> skill.category,
                       subcategory       |-> skill.subcategory,
                       aliases           |-> <<>>,
                       discovered        |-> TRUE,
                       first_seen        |-> skill.first_seen,
                       occurrence_count  |-> skill.occurrence_count])

\* _add_to_taxonomy_file on the file's skills list: skipped when an entry with
\* that name (lower-cased) exists, else the entry is appended and the file rewritten
add_to_taxonomy_file(file, skill) ==
    IF \E i \in 1..Len(file) : Lower(file[i].name) = Lower(skill.name)
    THEN file
    ELSE Append(file, [name              |-> skill.name,
                       category          |-> skill.category,
                       subcategory       |-> skill.subcategory,
                       aliases           |-> <<>>,
                       discovered        |-> TRUE,
                       first_seen        |-> skill.first_seen,
                       occurrence_count  |-> skill.occurrence_count])

\* _add_to_database on the rows of staging.dim_skills:
\* INSERT ... ON CONFLICT (skill_name) DO NOTHING
add_to_database(rows, skill) ==
    IF \E r \in rows : r.skill_name = skill.name
    THEN rows
    ELSE rows \cup {[skill_name        |-> skill.name,
                     skill_category    |-> skill.category,
                     skill_subcategory |-> skill.subcategory]}

\* the condition of the durable collaborators during one call: whether the taxonomy
\* file can be read and rewritten, and whether the database executes the INSERT
\* ("ok"), rejects it on a connection that still rolls back ("error"), or is a
\* closed connection, on which cursor() and rollback() both raise ("closed")
IoOk == [file_ok |-> TRUE, db |-> "ok"]
IoConditions == [file_ok : BOOLEAN, db : {"ok", "error", "closed"}]

\* _add_to_taxonomy_file with its try/except (lines 223-252): a failure to read or
\* write is logged and the file stays as it was
try_add_to_taxonomy_file(file, skill, io) ==
    IF io.file_ok THEN add_to_taxonomy_file(file, skill) ELSE file

\* _add_to_database with its try/except (lines 259-274): a failed INSERT is logged
\* and rolled back; the rollback is outside any try, so when it raises too the
\* exception leaves _add_to_database.  [rows, raised]
try_add_to_database(rows, skill, io) ==
    CASE io.db = "ok"     -> [rows |-> add_to_database(rows, skill), raised |-> FALSE]
      [] io.db = "error"  -> [rows |-> rows, raised |-> FALSE]
      [] io.db = "closed" -> [rows |-> rows, raised |-> TRUE]

\* what promote_to_taxonomy does for a skill of the collection, promoted or not
\* (lines 179-197); an exception out of _add_to_database ends it before the matcher
\* is updated and before is_promoted is set
PromoteWrites(w, i, has_path, has_db, extractor) ==
    LET skill == w.ds[i]
        added == add_skill(w.sk, w.pats, w.known,
                           skill.name, skill.category, skill.subcategory)
        file1 == IF has_path THEN try_add_to_taxonomy_file(w.file, skill, w.io)
                 ELSE w.file
        db    == IF has_db THEN try_add_to_database(w.rows, skill, w.io)
                 ELSE [rows |-> w.rows, raised |-> FALSE]
    IN IF db.raised
       THEN [w      |-> [w EXCEPT !.file = file1],
             ret    |-> FALSE,
             writes |-> (IF has_path THEN 1 ELSE 0) + 1,
             raised |-> TRUE]
       ELSE [w      |-> [w EXCEPT !.ds    = [w.ds EXCEPT ![i].is_promoted = TRUE],
                                  !.file  = file1,
                                  !.rows  = db.rows,
                                  !.sk    = IF extractor THEN added[1] ELSE w.sk,
                                  !.pats  = IF extractor THEN added[2] ELSE w.pats,
                                  !.known = IF extractor THEN added[3] ELSE w.known],
             ret    |-> TRUE,
             writes |-> (IF has_path THEN 1 ELSE 0) + (IF has_db THEN 1 ELSE 0)
                        + (IF extractor THEN 1 ELSE 0),
             raised |-> FALSE]

\* promote_to_taxonomy without the early return for a promoted skill
promote_again(w, skill_name, has_path, has_db, extractor) ==
    LET key == normalize_skill_name(skill_name)
    IN IF ~HasKey(w.ds, key) THEN [w |-> w, ret |-> FALSE, writes |-> 0, raised |-> FALSE]
       ELSE PromoteWrites(w, IndexOf(w.ds, key), has_path, has_db, extractor)

\* promote_to_taxonomy updating the matcher before it looks the name up
promote_unguarded(w, skill_name, has_path, has_db, extractor) ==
    LET key   == normalize_skill_name(skill_name)
        added == add_skill(w.sk, w.pats, w.known, skill_name, "Other", "")
    IN IF ~HasKey(w.ds, key)
       THEN [w |-> IF extractor
                   THEN [w EXCEPT !.sk = added[1], !.pats = added[2],
                                  !.known = added[3]]
                   ELSE w,
             ret |-> FALSE, writes |-> IF extractor THEN 1 ELSE 0, raised |-> FALSE]
       ELSE IF w.ds[IndexOf(w.ds, key)].is_promoted
            THEN [w |-> w, ret |-> TRUE, writes |-> 0, raised |-> FALSE]
            ELSE PromoteWrites(w, IndexOf(w.ds, key), has_path, has_db, extractor)

\* SkillDiscoveryManager.promote_to_taxonomy on w = [ds, file, rows, sk, pats, known];
\* has_path is "self.taxonomy_path", has_db "self.db_conn", extractor
\* "fast_path_extractor" (each true when set).  [w, ret, writes]: writes counts the
\* calls of _add_to_taxonomy_file, _add_to_database and add_skill made
promote_to_taxonomy(w, skill_name, has_path, has_db, extractor) ==
    LET key == normalize_skill_name(skill_name)
    IN IF ~HasKey(w.ds, key) THEN [w |-> w, ret |-> FALSE, writes |-> 0, raised |-> FALSE]
       ELSE IF w.ds[IndexOf(w.ds, key)].is_promoted
            THEN [w |-> w, ret |-> TRUE, writes |-> 0, raised |-> FALSE]
            ELSE PromoteWrites(w, IndexOf(w.ds, key), has_path, has_db, extractor)

\* the loop of auto_promote over the first n candidates, ended by an exception
\* out of promote_to_taxonomy: [w, promoted, writes, raised]
RECURSIVE PromoteAll(_, _, _, _, _, _)
PromoteAll(w, candidates, n, has_path, has_db, extractor) ==
    IF n = 0 THEN [w |-> w, promoted |-> <<>>, writes |-> 0, raised |-> FALSE]
    ELSE LET prev == PromoteAll(w, candidates, n - 1, has_path, has_db, extractor)
             r    == promote_to_taxonomy(prev.w, candidates[n].name,
                                         has_path, has_db, extractor)
         IN IF prev.raised THEN prev
            ELSE [w        |-> r.w,
                  promoted |-> IF r.ret THEN Append(prev.promoted, candidates[n].name)
                               ELSE prev.promoted,
                  writes   |-> prev.writes + r.writes,
                  raised   |-> r.raised]

\* SkillDiscoveryManager.auto_promote
auto_promote(w, has_path, has_db, extractor) ==
    LET candidates == get_promotion_candidates(w.ds)
    IN PromoteAll(w, candidates, Len(candidates), has_path, has_db, extractor)

----------------------------------------------------------------------------
(* Hybrid Orchestrator: hybrid.py *)

\* SlowPathExtractor._load_model: loads when no model is held and the backend is
\* enabled; load_ok is whether GLiNER.from_pretrained succeeds.  [model, available]
load_model(model, available, enabled, load_ok) ==
    IF ~model /\ enabled
    THEN IF load_ok THEN [model |-> TRUE, available |-> "true"]
         ELSE [model |-> FALSE, available |-> "false"]
    ELSE [model |-> model, available |-> available]

\* SlowPathExtractor.is_available: [ret, model, available]
is_available(model, available, enabled, load_ok) ==
    IF available # "none"
    THEN [ret |-> available = "true", model |-> model, available |-> available]
    ELSE IF ~enabled THEN [ret |-> FALSE, model |-> model, available |-> "false"]
    ELSE LET l == load_model(model, available, enabled, load_ok)
         IN [ret |-> l.available = "true", model |-> l.model, available |-> l.available]

\* int(1 / rate) if rate > 0 else 0, for a rate <<num, den>>
SampleInterval(rate) == IF rate[1] > 0 THEN rate[2] \div rate[1] ELSE 0

\* _should_invoke_gliner without the is_available test
should_invoke_unchecked(cfg, model, available, counter, fast_results) ==
    IF ~cfg.enable_gliner THEN [ret |-> FALSE, counter |-> counter]
    ELSE IF cfg.always_discover THEN [ret |-> TRUE, counter |-> counter]
    ELSE IF Len(fast_results) < cfg.min_skills_for_fast_only
    THEN [ret |-> TRUE, counter |-> counter]
    ELSE LET sample_interval == SampleInterval(cfg.discovery_sample_rate)
         IN [ret     |-> sample_interval > 0 /\ (counter + 1) % sample_interval = 0,
             counter |-> counter + 1]

\* _should_invoke_gliner returning False for a zero sample rate before it looks
\* at the number of fast-path skills
should_invoke_sampling_first(cfg, model, available, counter, fast_results) ==
    IF ~cfg.enable_gliner THEN [ret |-> FALSE, counter |-> counter]
    ELSE IF ~is_available(model, available, cfg.enable_gliner, FALSE).ret
    THEN [ret |-> FALSE, counter |-> counter]
    ELSE IF cfg.always_discover THEN [ret |-> TRUE, counter |-> counter]
    ELSE IF SampleInterval(cfg.discovery_sample_rate) = 0
    THEN [ret |-> FALSE, counter |-> counter]
    ELSE IF Len(fast_results) < cfg.min_skills_for_fast_only
    THEN [ret |-> TRUE, counter |-> counter]
    ELSE [ret     |-> (counter + 1) % SampleInterval(cfg.discovery_sample_rate) = 0,
          counter |-> counter + 1]

\* HybridSkillExtractor._should_invoke_gliner, on a backend whose availability the
\* constructor has cached when enable_gliner is set: [ret, counter]
should_invoke_gliner(cfg, model, available, counter, fast_results) ==
    IF ~cfg.enable_gliner THEN [ret |-> FALSE, counter |-> counter]
    ELSE IF ~is_available(model, available, cfg.enable_gliner, FALSE).ret
    THEN [ret |-> FALSE, counter |-> counter]
    ELSE IF cfg.always_discover THEN [ret |-> TRUE, counter |-> counter]
    ELSE IF Len(fast_results) < cfg.min_skills_for_fast_only
    THEN [ret |-> TRUE, counter |-> counter]
    ELSE LET sample_interval == SampleInterval(cfg.discovery_sample_rate)
         IN [ret     |-> sample_interval > 0 /\ (counter + 1) % sample_interval = 0,
             counter |-> counter + 1]

\* skill['verified'] = v; skill['extraction_method'] = m
Tag(skill, v, m) == [verified |-> v, extraction_method |-> m] @@ skill

\* _validate_against_taxonomy comparing the name as written with the lower-cased
\* known names
RECURSIVE validate_case_sensitive(_, _, _, _)
validate_case_sensitive(fp, known, gliner_skills, n) ==
    IF n = 0 THEN [verified |-> <<>>, unverified |-> <<>>]
    ELSE LET prev  == validate_case_sensitive(fp, known, gliner_skills, n - 1)
             skill == gliner_skills[n]
         IN IF fp /\ skill.skill_name \in known
            THEN [prev EXCEPT !.verified =
                      Append(@, Tag(skill, TRUE, "gliner_verified"))]
            ELSE [prev EXCEPT !.unverified =
                      Append(@, Tag(skill, FALSE, "gliner_unverified"))]

\* HybridSkillExtractor._validate_against_taxonomy over the first n skills:
\* [verified, unverified]
RECURSIVE validate_against_taxonomy(_, _, _, _)
validate_against_taxonomy(fp, known, gliner_skills, n) ==
    IF n = 0 THEN [verified |-> <<>>, unverified |-> <<>>]
    ELSE LET prev  == validate_against_taxonomy(fp, known, gliner_skills, n - 1)
             skill == gliner_skills[n]
         IN IF fp /\ is_known_skill(known, skill.skill_name)
            THEN [prev EXCEPT !.verified =
                      Append(@, Tag(skill, TRUE, "gliner_verified"))]
            ELSE [prev EXCEPT !.unverified =
                      Append(@, Tag(skill, FALSE, "gliner_unverified"))]

\* merged[key] = skill on the dict merged, kept as the sequence of its items
MergedSet(merged, key, skill) ==
    IF \E i \in 1..Len(merged) : merged[i].key = key
    THEN [i \in 1..Len(merged) |->
             IF merged[i].key = key THEN [key |-> key, skill |-> skill] ELSE merged[i]]
    ELSE Append(merged, [key |-> key, skill |-> skill])

HasMerged(merged, key) == \E i \in 1..Len(merged) : merged[i].key = key

\* the first loop of _merge_results (lines 203-207)
RECURSIVE MergeFast(_, _)
MergeFast(fast_results, n) ==
    IF n = 0 THEN <<>>
    ELSE MergedSet(MergeFast(fast_results, n - 1),
                   Lower(fast_results[n].skill_name),
                   Tag(fast_results[n], TRUE, "taxonomy"))

\* MergeVerified with "merged[key] = skill" turned into a list append: the
\* redundant discovery is added beside the fast-path entry
RECURSIVE MergeVerifiedAppend(_, _, _)
MergeVerifiedAppend(merged, verified_gliner, n) ==
    IF n = 0 THEN merged
    ELSE Append(MergeVerifiedAppend(merged, verified_gliner, n - 1),
                [key   |-> Lower(verified_gliner[n].skill_name),
                 skill |-> verified_gliner[n]])

\* MergeVerified without "if key not in merged": the discovery overwrites the
\* fast-path entry
RECURSIVE MergeVerifiedOverwrite(_, _, _)
MergeVerifiedOverwrite(merged, verified_gliner, n) ==
    IF n = 0 THEN merged
    ELSE MergedSet(MergeVerifiedOverwrite(merged, verified_gliner, n - 1),
                   Lower(verified_gliner[n].skill_name), verified_gliner[n])

\* the second loop (lines 214-217)
RECURSIVE MergeVerified(_, _, _)
MergeVerified(merged, verified_gliner, n) ==
    IF n = 0 THEN merged
    ELSE LET prev == MergeVerified(merged, verified_gliner, n - 1)
             key  == Lower(verified_gliner[n].skill_name)
         IN IF ~HasMerged(prev, key) THEN MergedSet(prev, key, verified_gliner[n])
            ELSE prev

\* the third loop (lines 220-225): [merged, new_discoveries]
RECURSIVE MergeUnverified(_, _, _)
MergeUnverified(merged, unverified_gliner, n) ==
    IF n = 0 THEN [merged |-> merged, new_discoveries |-> <<>>]
    ELSE LET prev == MergeUnverified(merged, unverified_gliner, n - 1)
             key  == Lower(unverified_gliner[n].skill_name)
         IN IF ~HasMerged(prev.merged, key)
            THEN [merged          |-> MergedSet(prev.merged, key, unverified_gliner[n]),
                  new_discoveries |-> Append(prev.new_discoveries, unverified_gliner[n])]
            ELSE prev

\* HybridSkillExtractor._merge_results: [merged, new_discoveries], merged being
\* list(merged.values())
merge_results(fp, known, fast_results, gliner_results) ==
    LET v  == validate_against_taxonomy(fp, known, gliner_results, Len(gliner_results))
        m1 == MergeFast(fast_results, Len(fast_results))
        m2 == MergeVerified(m1, v.verified, Len(v.verified))
        m3 == MergeUnverified(m2, v.unverified, Len(v.unverified))
    IN [merged          |-> [i \in 1..Len(m3.merged) |-> m3.merged[i].skill],
        new_discoveries |-> m3.new_discoveries]

\* the manager's view of the state: the collection and what promotion writes to
World ==
    [ds |-> discovered_skills, file |-> taxonomy_file, rows |-> dim_skills,
     sk |-> skills, pats |-> patterns, known |-> known_skill_names, io |-> IoOk]

\* steps 4 and 5 of a discovery run (hybrid.py 263-273, 360-363): record the new
\* discoveries, then auto-promote.  [w, clock, new_count, raised]
TrackDiscoveries(cfg, fp, w, clk, new_discoveries, context) ==
    IF new_discoveries = <<>>
    THEN [w |-> w, clock |-> clk, new_count |-> 0, raised |-> FALSE]
    ELSE LET b  == record_discoveries_batch(w.ds, clk, new_discoveries,
                                            Len(new_discoveries), context)
             w1 == [w EXCEPT !.ds = b.ds]
             a  == auto_promote(w1, cfg.taxonomy_path, cfg.db_connection, fp)
         IN [w         |-> IF cfg.auto_promote THEN a.w ELSE w1,
             clock     |-> b.clock,
             new_count |-> b.new_count,
             raised    |-> cfg.auto_promote /\ a.raised]

\* sum(1 for s in merged_results if s.get('verified', False))
VerifiedCount(results) == Cardinality({i \in 1..Len(results) : results[i].verified})

\* HybridSkillExtractor.extract_skills(text, context) for the document doc =
\* [text, prediction, context], from the state st = [w, clock, stats, counter].
\* An exception out of auto_promote leaves the call at line 273: nothing is
\* returned (ret is then empty and raised is set) and verified_skills is not counted
extract_skills(cfg, fp, model, available, st, doc) ==
    LET fast_results == IF fp THEN fast_extract_skills(st.w.sk, st.w.pats, doc.text)
                        ELSE <<>>
        route  == should_invoke_gliner(cfg, model, available, st.counter, fast_results)
        gliner == slow_extract_skills(cfg.enable_gliner, doc.text, doc.prediction)
        m      == merge_results(fp, st.w.known, fast_results, gliner)
        t      == TrackDiscoveries(cfg, fp, st.w, st.clock, m.new_discoveries,
                                   doc.context)
    IN IF route.ret
       THEN [w       |-> t.w,
             clock   |-> t.clock,
             counter |-> route.counter,
             stats   |-> [st.stats EXCEPT
                            !.total_extractions = @ + 1,
                            !.gliner_invoked    = @ + 1,
                            !.new_discoveries   = @ + t.new_count,
                            !.unverified_skills = @ + Len(m.new_discoveries),
                            !.verified_skills   =
                                IF t.raised THEN @ ELSE @ + VerifiedCount(m.merged)],
             ret     |-> IF t.raised THEN <<>> ELSE m.merged,
             raised  |-> t.raised,
             fast    |-> fast_results,
             gliner  |-> gliner,
             new_discoveries |-> m.new_discoveries,
             invoked |-> TRUE,
             decision |-> "true"]
       ELSE [w       |-> st.w,
             clock   |-> st.clock,
             counter |-> route.counter,
             stats   |-> [st.stats EXCEPT
                            !.total_extractions = @ + 1,
                            !.fast_path_only    = @ + 1,
                            !.verified_skills   = @ + Len(fast_results)],
             ret     |-> [i \in 1..Len(fast_results) |->
                             Tag(fast_results[i], TRUE, "taxonomy")],
             raised  |-> FALSE,
             fast    |-> fast_results,
             gliner  |-> <<>>,
             new_discoveries |-> <<>>,
             invoked |-> FALSE,
             decision |-> "false"]

\* HybridSkillExtractor.force_discover(text, context) when the backend is available
\* (lines 353-365): both paths, merge, track; no statistics
force_discover(cfg, fp, st, doc) ==
    LET fast_results == IF fp THEN fast_extract_skills(st.w.sk, st.w.pats, doc.text)
                        ELSE <<>>
        gliner == slow_extract_skills(cfg.enable_gliner, doc.text, doc.prediction)
        m      == merge_results(fp, st.w.known, fast_results, gliner)
        t      == TrackDiscoveries(cfg, fp, st.w, st.clock, m.new_discoveries,
                                   doc.context)
    IN [w       |-> t.w,
        clock   |-> t.clock,
        counter |-> st.counter,
        stats   |-> st.stats,
        ret     |-> IF t.raised THEN <<>> ELSE m.merged,
        raised  |-> t.raised,
        fast    |-> fast_results,
        gliner  |-> gliner,
        new_discoveries |-> m.new_discoveries,
        invoked |-> TRUE,
        decision |-> "none"]

\* zip(texts, contexts) of extract_skills_batch (lines 306-310): contexts is
\* [given, list]; when not given it is [''] * len(texts); zip stops at the shorter
\* of the two lists.  A text is [text, prediction]: the string and what the model
\* predicts on it
ZipTexts(texts, contexts) ==
    LET ctx == IF contexts.given THEN contexts.list ELSE [i \in 1..Len(texts) |-> 0]
    IN [i \in 1..Min(Len(texts), Len(ctx)) |->
           [text |-> texts[i].text, prediction |-> texts[i].prediction,
            context |-> ctx[i]]]

\* the loop of extract_skills_batch over the first n pairs (lines 309-312), ended
\* by an exception out of extract_skills: [st, results, raised].  prev is the loop
\* so far and r the outcome of the n-th call, each computed once
RECURSIVE BatchLoop(_, _, _, _, _, _, _)
BatchLoop(cfg, fp, model, available, st, pairs, n) ==
    IF n = 0 THEN [st |-> st, results |-> <<>>, raised |-> FALSE]
    ELSE LET call(prev) ==
                 {[st      |-> [w |-> r.w, clock |-> r.clock, stats |-> r.stats,
                                counter |-> r.counter],
                   results |-> IF r.raised THEN <<>> ELSE Append(prev.results, r.ret),
                   raised  |-> r.raised] :
                     r \in {extract_skills(cfg, fp, model, available, prev.st,
                                           pairs[n])}}
         IN CHOOSE out \in UNION {IF prev.raised THEN {prev} ELSE call(prev) :
                                     prev \in {BatchLoop(cfg, fp, model, available,
                                                         st, pairs, n - 1)}} : TRUE

\* HybridSkillExtractor.extract_skills_batch(texts, contexts)
extract_skills_batch(cfg, fp, model, available, st, texts, contexts) ==
    LET pairs == ZipTexts(texts, contexts)
    IN BatchLoop(cfg, fp, model, available, st, pairs, Len(pairs))

ZeroStats ==
    [total_extractions |-> 0, fast_path_only |-> 0, gliner_invoked |-> 0,
     new_discoveries |-> 0, verified_skills |-> 0, unverified_skills |-> 0]

----------------------------------------------------------------------------
(* Inputs *)

eDb    == [text |-> nDb,   label |-> "database",             score |-> 9000]
edb    == [text |-> ndb,   label |-> "data warehouse",       score |-> 7496]
eDbLow == [text |-> nDbsp, label |-> "database",             score |-> 5500]
ePy    == [text |-> npy,   label |-> "programming language", score |-> 9000]
ePY    == [text |-> nPY,   label |-> "programming language", score |-> 8500]
ejs    == [text |-> njs,   label |-> "programming language", score |-> 8000]
eData  == [text |-> nData, label |-> "big data tool",        score |-> 9000]
eR     == [text |-> nRsp,  label |-> "programming language", score |-> 9000]
eMlLow == [text |-> nMl,   label |-> "machine learning framework", score |-> 4200]
\* a malformed entity: {'text': None, ...}
eNone  == [label |-> "database", score |-> 9000, text_is_none |-> TRUE]

Predicted(entities) == [ok |-> TRUE, entities |-> entities]
PredictionFails == [ok |-> FALSE, entities |-> <<>>]

\* the documents: a text, what the model predicts on it, the caller's context
Docs ==
    { [text |-> [words |-> <<nPy, npy>>, filler |-> 60],
       prediction |-> Predicted(<<ePy, eDb>>), context |-> 120],
      [text |-> [words |-> <<nDb>>, filler |-> 60],
       prediction |-> Predicted(<<edb, eDb>>), context |-> 0],
      [text |-> [words |-> <<nDb, nPy>>, filler |-> 60],
       prediction |-> Predicted(<<eDbLow>>), context |-> 40],
      [text |-> [words |-> <<nJv, njs>>, filler |-> 60],
       prediction |-> Predicted(<<ejs, ePY, eData, eR, eMlLow>>), context |-> 0],
      [text |-> [words |-> <<nPy, nJv>>, filler |-> 60],
       prediction |-> PredictionFails, context |-> 0],
      [text |-> [words |-> <<nPy, nDb>>, filler |-> 10],
       prediction |-> Predicted(<<eDb>>), context |-> 0],
      [text |-> [words |-> <<nJv, nDb>>, filler |-> 60],
       prediction |-> Predicted(<<eDb, eNone>>), context |-> 0],
      [text |-> [words |-> <<>>, filler |-> 0],
       prediction |-> Predicted(<<>>), context |-> 0] }

MinSkillsChoices == {1, 5}
\* discovery_sample_rate as <<numerator, denominator>>: 0, 0.5 and 0.6
SampleRates == {<<0, 1>>, <<1, 2>>, <<3, 5>>}

AllConfigs ==
    [enable_gliner : BOOLEAN, always_discover : BOOLEAN,
     min_skills_for_fast_only : MinSkillsChoices,
     discovery_sample_rate : SampleRates, auto_promote : BOOLEAN,
     taxonomy_path : BOOLEAN, db_connection : BOOLEAN]

\* every routing configuration, with and without a taxonomy
Configs == {c \in AllConfigs : c.auto_promote /\ c.db_connection}

\* the rows staging.dim_skills holds for the taxonomy
TaxonomyRows ==
    {[skill_name |-> TaxonomyData[i].name, skill_category |-> TaxonomyData[i].category,
      skill_subcategory |-> TaxonomyData[i].subcategory] : i \in 1..Len(TaxonomyData)}

NoCall ==
    [op |-> "init", ret_list |-> <<>>, ret_bool |-> FALSE, fast |-> <<>>,
     gliner |-> <<>>, new_discoveries |-> <<>>, invoked |-> FALSE,
     available_at_call |-> "none", decision |-> "none", known_before |-> {},
     writes |-> 0, ret_counts |-> <<0, 0>>, ret_names |-> <<>>,
     arg_skill |-> <<>>, arg_name |-> <<>>, raised |-> FALSE,
     ret_batch |-> <<>>, arg_texts |-> <<>>,
     arg_contexts |-> [given |-> FALSE, list |-> <<>>], ret_dict |-> <<>>,
     arg_term |-> <<>>, arg_text |-> <<>>, ret_count |-> 0]

----------------------------------------------------------------------------
(* The orchestrator: construction and calls *)

\* what config.taxonomy_path may point to: a file that exists or not, that parses
\* as JSON or not, whose object has a 'skills' list or not
TaxonomyStore ==
    [exists |-> TRUE, json_ok |-> TRUE, has_skills |-> TRUE, skills |-> TaxonomyData]

TaxonomySources ==
    { TaxonomyStore,
      [TaxonomyStore EXCEPT !.exists = FALSE],
      [TaxonomyStore EXCEPT !.json_ok = FALSE],
      [TaxonomyStore EXCEPT !.has_skills = FALSE, !.skills = <<>>],
      [TaxonomyStore EXCEPT !.skills =
          <<TaxonomyData[1], [category |-> "Database", subcategory |-> "", aliases |-> <<>>]>>] }

\* FastPathExtractor._load_taxonomy_file: FileNotFoundError and JSONDecodeError are
\* logged and raised again; skill['name'] on an entry without name is a KeyError;
\* data.get('skills', []) makes an object without a skills list an empty taxonomy.
\* [raised, loaded]
load_taxonomy_file(source) ==
    IF \/ ~source.exists
       \/ ~source.json_ok
       \/ \E i \in 1..Len(source.skills) : "name" \notin DOMAIN source.skills[i]
    THEN [raised |-> TRUE, loaded |-> << <<>>, <<>>, {} >>]
    ELSE [raised |-> FALSE, loaded |-> load_taxonomy_data(source.skills)]

\* HybridSkillExtractor.__init__ (hybrid.py 59-125) with config.taxonomy_path, when
\* set, pointing to source; load_ok is whether the GLiNER model loads when the
\* constructor asks is_available.  An exception out of FastPathExtractor(...)
\* (line 83) ends the construction: no orchestrator exists (last.raised)
ConstructFrom(cfg, source, load_ok) ==
    LET file   == IF cfg.taxonomy_path THEN load_taxonomy_file(source)
                  ELSE [raised |-> FALSE, loaded |-> << <<>>, <<>>, {} >>]
        loaded == file.loaded
        avail  == IF cfg.enable_gliner /\ ~file.raised
                  THEN is_available(FALSE, "none", TRUE, load_ok)
                  ELSE [ret |-> FALSE, model |-> FALSE, available |-> "none"]
    IN /\ config = cfg
       /\ fast_path = (cfg.taxonomy_path /\ ~file.raised)
       /\ skills = loaded[1]
       /\ patterns = loaded[2]
       /\ known_skill_names = loaded[3]
       /\ slow_model = avail.model
       /\ slow_available = avail.available
       /\ answered = IF cfg.enable_gliner /\ ~file.raised THEN avail.available
                    ELSE "none"
       /\ threads = [th |-> [t \in {1, 2} |-> [pc |-> "idle"]], done |-> <<>>]
       /\ discovered_skills = <<>>
       /\ clock = 0
       /\ taxonomy_file = IF cfg.taxonomy_path /\ source.exists /\ source.json_ok
                          THEN source.skills ELSE <<>>
       /\ dim_skills = IF cfg.db_connection THEN TaxonomyRows ELSE {}
       /\ stats = ZeroStats
       /\ extraction_counter = 0
       /\ mode = IF cfg.enable_gliner /\ avail.ret THEN "hybrid" ELSE "fast_only"
       /\ last = [NoCall EXCEPT !.raised = file.raised]
       /\ calls = 0

\* the construction on the taxonomy store
Construct(cfg, load_ok) == ConstructFrom(cfg, TaxonomyStore, load_ok)

Init ==
    \E cfg \in Configs, load_ok \in BOOLEAN :
        /\ cfg.enable_gliner \/ load_ok
        /\ Construct(cfg, load_ok)

OrchState ==
    [w |-> World, clock |-> clock, stats |-> stats, counter |-> extraction_counter]

\* the state after a call whose outcome is r
SetState(op, r, available) ==
    /\ discovered_skills' = r.w.ds
    /\ taxonomy_file' = r.w.file
    /\ dim_skills' = r.w.rows
    /\ skills' = r.w.sk
    /\ patterns' = r.w.pats
    /\ known_skill_names' = r.w.known
    /\ clock' = r.clock
    /\ stats' = r.stats
    /\ extraction_counter' = r.counter
    /\ last' = [NoCall EXCEPT !.op = op, !.ret_list = r.ret, !.fast = r.fast,
                              !.gliner = r.gliner,
                              !.new_discoveries = r.new_discoveries,
                              !.invoked = r.invoked,
                              !.available_at_call = available,
                              !.decision = r.decision,
                              !.known_before = known_skill_names,
                              !.raised = r.raised]
    /\ calls' = calls + 1

\* the orchestrator's state, the collaborators being in condition io
OrchStateWith(io) == [OrchState EXCEPT !.w.io = io]

\* extract_skills(text, context) while the collaborators are in condition io
ExtractSkillsWith(doc, io) ==
    /\ SetState("extract_skills",
                extract_skills(config, fast_path, slow_model, slow_available,
                               OrchStateWith(io), doc),
                slow_available)
    /\ UNCHANGED <<config, fast_path, threads, slow_model, slow_available, answered,
                   mode>>

\* force_discover(text, context) while the collaborators are in condition io: falls
\* back to extract_skills when the backend is not available (asking caches the
\* availability of a disabled backend)
ForceDiscoverWith(doc, io) ==
    /\ LET a == is_available(slow_model, slow_available, config.enable_gliner, FALSE)
       IN /\ slow_available' = a.available
          /\ slow_model' = a.model
          /\ answered' = a.available
          /\ IF ~a.ret
             THEN SetState("force_discover",
                           extract_skills(config, fast_path, a.model, a.available,
                                          OrchStateWith(io), doc),
                           a.available)
             ELSE SetState("force_discover",
                           force_discover(config, fast_path, OrchStateWith(io), doc),
                           a.available)
    /\ UNCHANGED <<config, fast_path, threads, mode>>

\* extract_skills(text, context), the store and the database working
ExtractSkills(doc) == ExtractSkillsWith(doc, IoOk)

\* force_discover(text, context), the store and the database working
ForceDiscover(doc) == ForceDiscoverWith(doc, IoOk)

\* reset_stats() clearing total_extractions only
ResetStatsTotalOnly ==
    /\ stats # ZeroStats
    /\ stats' = [stats EXCEPT !.total_extractions = 0]
    /\ last' = [NoCall EXCEPT !.op = "reset_stats"]
    /\ calls' = calls + 1
    /\ UNCHANGED <<config, fast_path, threads, answered, skills, patterns,
                   known_skill_names, slow_model, slow_available,
                   discovered_skills, clock, taxonomy_file, dim_skills,
                   extraction_counter, mode>>

\* reset_stats() also restarting the sampling counter
ResetStatsAndCounter ==
    /\ stats # ZeroStats
    /\ stats' = ZeroStats
    /\ extraction_counter' = 0
    /\ last' = [NoCall EXCEPT !.op = "reset_stats"]
    /\ calls' = calls + 1
    /\ UNCHANGED <<config, fast_path, threads, answered, skills, patterns,
                   known_skill_names, slow_model, slow_available,
                   discovered_skills, clock, taxonomy_file, dim_skills, mode>>

\* reset_stats()
ResetStats ==
    /\ stats # ZeroStats
    /\ stats' = ZeroStats
    /\ last' = [NoCall EXCEPT !.op = "reset_stats"]
    /\ calls' = calls + 1
    /\ UNCHANGED <<config, fast_path, threads, answered, skills, patterns,
                      known_skill_names,
                   slow_model, slow_available, discovered_skills, clock,
                   taxonomy_file, dim_skills, extraction_counter, mode>>

Next ==
    /\ calls < MaxCalls
    /\ \/ \E doc \in Docs : ExtractSkills(doc)
       \/ \E doc \in Docs : ForceDiscover(doc)
       \/ ResetStats

Spec == Init /\ [][Next]_vars

----------------------------------------------------------------------------
(* Promotion runs: a hybrid orchestrator with a taxonomy, over more documents *)

PromoConfigs ==
    {c \in AllConfigs :
        /\ c.enable_gliner /\ c.taxonomy_path /\ c.db_connection
        /\ \/ c.always_discover /\ c.min_skills_for_fast_only = 5
              /\ c.discovery_sample_rate = <<0, 1>>
           \/ ~c.always_discover /\ c.min_skills_for_fast_only = 1
              /\ c.discovery_sample_rate = <<0, 1>>}

PromoDocs ==
    {d \in Docs : /\ d.prediction.ok /\ d.prediction.entities # <<>>
                  /\ \A i \in 1..Len(d.prediction.entities) :
                         ~EntityRaises(d.prediction.entities[i])
                  /\ TextLen(d.text) >= MIN_TEXT_LENGTH}

InitPromo == \E cfg \in PromoConfigs : Construct(cfg, TRUE)

NextPromo ==
    /\ calls < MaxDocs
    /\ \/ \E doc \in PromoDocs : ExtractSkills(doc)
       \/ \E doc \in PromoDocs : ForceDiscover(doc)

SpecPromo == InitPromo /\ [][NextPromo]_vars

----------------------------------------------------------------------------
(* Promotion runs in which the taxonomy file and the database may fail *)

IoConfigs == {c \in PromoConfigs : c.auto_promote}

InitIO == \E cfg \in IoConfigs : Construct(cfg, TRUE)

NextIO ==
    /\ calls < MaxDocs
    /\ \/ \E doc \in PromoDocs, io \in IoConditions : ExtractSkillsWith(doc, io)
       \/ \E doc \in PromoDocs, io \in IoConditions : ForceDiscoverWith(doc, io)

SpecIO == InitIO /\ [][NextIO]_vars

----------------------------------------------------------------------------
(* Construction from every kind of taxonomy source, then calls *)

LoadConfigs ==
    {c \in AllConfigs :
        /\ c.enable_gliner /\ c.auto_promote /\ ~c.db_connection
        /\ c.min_skills_for_fast_only = 5 /\ c.discovery_sample_rate = <<0, 1>>}

InitLoad ==
    \E cfg \in LoadConfigs, source \in TaxonomySources :
        ConstructFrom(cfg, source, TRUE)

\* the constructor raised: there is no orchestrator to call
ConstructionFailed == last.op = "init" /\ last.raised

NextLoad ==
    /\ calls < MaxCalls
    /\ ~ConstructionFailed
    /\ \/ \E doc \in Docs : ExtractSkills(doc)
       \/ \E doc \in Docs : ForceDiscover(doc)

SpecLoad == InitLoad /\ [][NextLoad]_vars

----------------------------------------------------------------------------
(* Batches: extract_skills_batch on a hybrid orchestrator *)

\* the texts of a batch: the documents that come without a context of their own
BatchTexts ==
    {[text |-> d.text, prediction |-> d.prediction] :
        d \in {x \in PromoDocs : x.context = 0}}

\* texts: up to two; contexts: omitted, or a list of up to three contexts
BatchTextLists == {<<>>} \cup {<<t>> : t \in BatchTexts}
                  \cup {<<t, u>> : t \in BatchTexts, u \in BatchTexts}

BatchContextLists ==
    {[given |-> FALSE, list |-> <<>>]}
    \cup {[given |-> TRUE, list |-> l] : l \in {<<>>, <<40>>, <<40, 0>>, <<0, 40, 40>>}}

BatchConfigs == {c \in PromoConfigs : c.auto_promote}

InitBatch == \E cfg \in BatchConfigs : Construct(cfg, TRUE)

\* extract_skills_batch(texts, contexts)
ExtractSkillsBatch(texts, contexts) ==
    \E r \in {extract_skills_batch(config, fast_path, slow_model, slow_available,
                                   OrchState, texts, contexts)} :
       /\ discovered_skills' = r.st.w.ds
       /\ taxonomy_file' = r.st.w.file
       /\ dim_skills' = r.st.w.rows
       /\ skills' = r.st.w.sk
       /\ patterns' = r.st.w.pats
       /\ known_skill_names' = r.st.w.known
       /\ clock' = r.st.clock
       /\ stats' = r.st.stats
       /\ extraction_counter' = r.st.counter
       /\ last' = [NoCall EXCEPT !.op = "extract_skills_batch",
                                 !.ret_batch = r.results,
                                 !.raised = r.raised,
                                 !.arg_texts = texts,
                                 !.arg_contexts = contexts]
       /\ calls' = calls + 1
       /\ UNCHANGED <<config, fast_path, threads, slow_model, slow_available, answered,
                   mode>>

NextBatch ==
    /\ calls < MaxCalls
    /\ \/ \E texts \in BatchTextLists, contexts \in BatchContextLists :
              ExtractSkillsBatch(texts, contexts)
       \/ \E doc \in PromoDocs : ExtractSkills(doc)
       \/ \E doc \in PromoDocs : ForceDiscover(doc)
       \/ ResetStats

SpecBatch == InitBatch /\ [][NextBatch]_vars

----------------------------------------------------------------------------
(* The discovery backend called directly: self.slow_path of an orchestrator *)

\* SlowPathExtractor.extract_skills(text) (slow_path.py 181-244), the model load it
\* attempts included: [ret, model, available]
slow_path_extract_skills(model, available, enabled, doc, load_ok) ==
    IF ~enabled \/ TextLen(doc.text) < MIN_TEXT_LENGTH
    THEN [ret |-> <<>>, model |-> model, available |-> available]
    ELSE LET l == load_model(model, available, enabled, load_ok)
         IN [ret       |-> IF l.model
                           THEN slow_extract_skills(enabled, doc.text, doc.prediction)
                           ELSE <<>>,
             model     |-> l.model,
             available |-> l.available]

\* SlowPathExtractor.extract_skills_batch(texts) (slow_path.py 273-308) for texts that
\* fit one batch: batch_predict_entities raises when a prediction does; an exception
\* out of _process_entities keeps the lists already appended and adds one empty
\* list per text of the batch.  [ret, model, available]
slow_path_extract_skills_batch(model, available, enabled, docs, load_ok) ==
    LET empties == [i \in 1..Len(docs) |-> <<>>]
        l       == load_model(model, available, enabled, load_ok)
        bad     == {i \in 1..Len(docs) :
                       \E j \in 1..Len(docs[i].prediction.entities) :
                           EntityRaises(docs[i].prediction.entities[j])}
        done(n) == [i \in 1..n |->
                       ProcessEntities(docs[i].prediction.entities,
                                       Len(docs[i].prediction.entities))[1]]
    IN IF ~enabled \/ docs = <<>>
       THEN [ret |-> empties, model |-> model, available |-> available]
       ELSE [ret       |-> IF ~l.model THEN empties
                           ELSE IF \E i \in 1..Len(docs) : ~docs[i].prediction.ok
                           THEN empties
                           ELSE IF bad # {}
                           THEN done((CHOOSE i \in bad : \A j \in bad : i <= j) - 1)
                                \o empties
                           ELSE done(Len(docs)),
             model     |-> l.model,
             available |-> l.available]

\* the state after a call on the backend that left it as r
SetBackend(r, call) ==
    /\ slow_model' = r.model
    /\ slow_available' = r.available
    /\ last' = call
    /\ calls' = calls + 1
    /\ UNCHANGED <<config, fast_path, threads, skills, patterns, known_skill_names,
                   discovered_skills, clock, taxonomy_file, dim_skills, stats,
                   extraction_counter, mode>>

\* slow_path.is_available(); load_ok is whether a model load would succeed now
SlowIsAvailable(load_ok) ==
    LET a == is_available(slow_model, slow_available, config.enable_gliner, load_ok)
    IN /\ SetBackend(a, [NoCall EXCEPT !.op = "is_available", !.ret_bool = a.ret])
       /\ answered' = a.available

\* slow_path.extract_skills(text)
SlowExtractSkills(doc, load_ok) ==
    LET r == slow_path_extract_skills(slow_model, slow_available,
                                      config.enable_gliner, doc, load_ok)
    IN /\ SetBackend(r, [NoCall EXCEPT !.op = "slow_extract_skills",
                                       !.ret_list = r.ret])
       /\ UNCHANGED answered

\* slow_path.extract_skills_batch(texts)
SlowExtractSkillsBatch(docs, load_ok) ==
    LET r == slow_path_extract_skills_batch(slow_model, slow_available,
                                            config.enable_gliner, docs, load_ok)
    IN /\ SetBackend(r, [NoCall EXCEPT !.op = "slow_extract_skills_batch",
                                       !.ret_batch = r.ret])
       /\ UNCHANGED answered

\* an orchestrator of any configuration, whatever the first model load did
InitSlow == \E cfg \in Configs, load_ok \in BOOLEAN : Construct(cfg, load_ok)

NextSlow ==
    /\ calls < MaxCalls
    /\ \E load_ok \in BOOLEAN :
          \/ SlowIsAvailable(load_ok)
          \/ \E doc \in Docs : SlowExtractSkills(doc, load_ok)
          \/ \E d1 \in Docs, d2 \in Docs : SlowExtractSkillsBatch(<<d1, d2>>, load_ok)
          \/ SlowExtractSkillsBatch(<<>>, load_ok)

SpecSlow == InitSlow /\ [][NextSlow]_vars

----------------------------------------------------------------------------
(* The matcher's generic pattern on texts given character by character *)

\* one pattern compiled by the generic rule of _compile_pattern for term, and
\* pattern.findall(text) as extract_skills (fast_path.py line 129) calls it
FindAll(term, text) ==
    /\ calls = 0
    /\ calls' = 1
    /\ last' = [NoCall EXCEPT !.op = "findall", !.arg_term = term, !.arg_text = text,
                              !.ret_count = findall(term, text)]
    /\ UNCHANGED <<config, fast_path, threads, skills, patterns, known_skill_names,
                   slow_model, slow_available, answered, discovered_skills, clock,
                   taxonomy_file, dim_skills, stats, extraction_counter, mode>>

\* terms outside special_terms: 'Jv', 'Py', 'R' and 'J#'; texts: one occurrence of
\* a term in some letter case between two edges, each empty or one character, and
\* two occurrences separated by a blank
NextMatch ==
    LET edges == {<<>>, <<" ">>, <<"s">>, <<"_">>, <<"1">>, <<"#">>, <<".">>}
        mids  == {nJv, Lower(nJv), nPy, npy, nPY, nR, <<"J", "#">>}
        texts == {pre \o mid \o post : pre \in edges, mid \in mids, post \in edges}
                 \cup {m1 \o <<" ">> \o m2 : m1 \in mids, m2 \in mids}
    IN \E term \in {nJv, nPy, nR, <<"J", "#">>}, text \in texts : FindAll(term, text)

SpecMatch == InitPromo /\ [][NextMatch]_vars

----------------------------------------------------------------------------
(* The lifecycle manager called directly *)

MgrConfidences == {740, 750, 800, 900}

MgrSkills ==
    {[skill_name |-> nDb, category |-> "Database", subcategory |-> "database",
      confidence |-> c] : c \in MgrConfidences}
    \cup {[skill_name |-> nDbsp, category |-> "Database", subcategory |-> "database"],
          [skill_name |-> nRsp, confidence |-> 900],
          [skill_name |-> nNone, confidence |-> 900],
          [category |-> "Database", confidence |-> 900]}

\* the context of a single record call, and of a batch
MgrContexts == {120}
BatchContexts == {0}

MgrBatches ==
    { <<>>,
      <<[skill_name |-> nDb, confidence |-> 800], [skill_name |-> ndb, confidence |-> 900]>>,
      <<[skill_name |-> nR, confidence |-> 900], [skill_name |-> nMl, confidence |-> 750]>> }

MgrNames == {nDbsp, nMl, nPy}

MgrConfigs ==
    {c \in AllConfigs :
        /\ ~c.enable_gliner /\ ~c.always_discover /\ ~c.auto_promote
        /\ c.min_skills_for_fast_only = 5 /\ c.discovery_sample_rate = <<0, 1>>}

InitMgr == \E cfg \in MgrConfigs : Construct(cfg, TRUE)

SetWorld(w) ==
    /\ discovered_skills' = w.ds
    /\ taxonomy_file' = w.file
    /\ dim_skills' = w.rows
    /\ skills' = w.sk
    /\ patterns' = w.pats
    /\ known_skill_names' = w.known

\* record_discovery(skill, context)
RecordDiscovery(skill, context) ==
    LET r == record_discovery(discovered_skills, clock, skill, context)
    IN /\ r.clock <= MaxRecords
       /\ discovered_skills' = r.ds
       /\ clock' = r.clock
       /\ last' = [NoCall EXCEPT !.op = "record_discovery", !.ret_bool = r.ret,
                                 !.arg_skill = skill]
       /\ UNCHANGED <<config, fast_path, threads, answered, skills, patterns,
                      known_skill_names,
                      slow_model, slow_available, taxonomy_file, dim_skills, stats,
                      extraction_counter, mode, calls>>

\* record_discoveries_batch(skills, context)
RecordDiscoveriesBatch(skillList, context) ==
    LET r == record_discoveries_batch(discovered_skills, clock, skillList,
                                      Len(skillList), context)
    IN /\ r.clock <= MaxRecords
       /\ discovered_skills' = r.ds
       /\ clock' = r.clock
       /\ last' = [NoCall EXCEPT !.op = "record_discoveries_batch",
                                 !.ret_counts = <<r.new_count, r.updated_count>>]
       /\ UNCHANGED <<config, fast_path, threads, answered, skills, patterns,
                      known_skill_names,
                      slow_model, slow_available, taxonomy_file, dim_skills, stats,
                      extraction_counter, mode, calls>>

\* promote_to_taxonomy(skill_name, fast_path_extractor), the caller passing its
\* matcher, if it has one, as hybrid.py does
PromoteToTaxonomy(skill_name) ==
    LET r == promote_to_taxonomy(World, skill_name, config.taxonomy_path,
                                 config.db_connection, fast_path)
    IN /\ SetWorld(r.w)
       /\ last' = [NoCall EXCEPT !.op = "promote_to_taxonomy", !.ret_bool = r.ret,
                                 !.writes = r.writes, !.arg_name = skill_name,
                                 !.raised = r.raised]
       /\ UNCHANGED <<config, fast_path, threads, slow_model, slow_available,
                      answered, clock, stats, extraction_counter, mode, calls>>

\* auto_promote(fast_path_extractor)
AutoPromote ==
    LET r == auto_promote(World, config.taxonomy_path, config.db_connection, fast_path)
    IN /\ SetWorld(r.w)
       /\ last' = [NoCall EXCEPT !.op = "auto_promote", !.ret_names = r.promoted,
                                 !.writes = r.writes, !.raised = r.raised]
       /\ UNCHANGED <<config, fast_path, threads, slow_model, slow_available,
                      answered, clock, stats, extraction_counter, mode, calls>>

\* get_stats() and export_discoveries() of the manager
ReadManager(op, ret) ==
    /\ last' = [NoCall EXCEPT !.op = op, !.ret_dict = ret]
    /\ UNCHANGED <<config, fast_path, threads, skills, patterns, known_skill_names,
                   slow_model, slow_available, answered, discovered_skills, clock,
                   taxonomy_file, dim_skills, stats, extraction_counter, mode, calls>>

GetStats == ReadManager("get_stats", get_stats(discovered_skills))

ExportDiscoveries ==
    ReadManager("export_discoveries", export_discoveries(discovered_skills))

NextMgr ==
    \/ GetStats
    \/ ExportDiscoveries
    \/ \E skill \in MgrSkills, context \in MgrContexts : RecordDiscovery(skill, context)
    \/ \E skillList \in MgrBatches, context \in BatchContexts :
           RecordDiscoveriesBatch(skillList, context)
    \/ \E skill_name \in MgrNames : PromoteToTaxonomy(skill_name)
    \/ AutoPromote

SpecMgr == InitMgr /\ [][NextMgr]_vars

\* the manager recording names the taxonomy store holds in another case as well
\* as names it does not hold, and promoting them
NextStore ==
    \/ \E name \in {npy, nPy, nDb, nMl}, context \in BatchContexts :
           RecordDiscovery([skill_name |-> name, confidence |-> 900], context)
    \/ \E skill_name \in {npy, nDb, nMl} : PromoteToTaxonomy(skill_name)
    \/ AutoPromote

SpecStore == InitMgr /\ [][NextStore]_vars

----------------------------------------------------------------------------
(* record_discovery called from two document-processing threads *)

\* a thread enters record_discovery(skill, context) with a candidate it accepts
\* (lines 85-90): name, key and confidence are the thread's own
RecordCall(t, skill, context) ==
    /\ threads.th[t].pc = "idle"
    /\ Len(Strip(GetSkillName(skill))) >= 2
    /\ Len(threads.done)
         + Cardinality({u \in DOMAIN threads.th : threads.th[u].pc # "idle"}) < MaxRecords
    /\ threads' = [threads EXCEPT !.th[t] =
                      [pc |-> "check", skill |-> skill, context |-> context,
                       name |-> Strip(GetSkillName(skill)),
                       key |-> normalize_skill_name(Strip(GetSkillName(skill))),
                       confidence |-> GetConfidence(skill)]]
    /\ UNCHANGED <<config, fast_path, skills, patterns, known_skill_names, slow_model,
                   slow_available, answered, discovered_skills, clock, taxonomy_file,
                   dim_skills, stats, extraction_counter, mode, last, calls>>

\* one step of thread t inside record_discovery; the interpreter may switch threads
\* between any two of them, no lock being held (lines 92-118): the membership test
\* (92); for a key found, the load and the store of occurrence_count += 1 (95) with
\* last_seen (96), the evaluation of the running average (98-101) and its store with
\* the context (98-104); for a key not found, the store of the new DiscoveredSkill
\* under the key (107-118), which replaces whatever the key holds
RecordStep(t) ==
    LET me  == threads.th[t]
        i   == IndexOf(discovered_skills, me.key)
        ret(v) ==
            /\ threads' = [threads EXCEPT !.th[t] = [pc |-> "idle"],
                                          !.done = Append(@, me.confidence)]
            /\ last' = [NoCall EXCEPT !.op = "record_discovery", !.ret_bool = v,
                                      !.arg_skill = me.skill]
            /\ calls' = calls + 1
        goto(pc, more) ==
            /\ threads' = [threads EXCEPT !.th[t] = [x \in DOMAIN me \cup DOMAIN more |->
                              IF x = "pc" THEN pc
                              ELSE IF x \in DOMAIN more THEN more[x] ELSE me[x]]]
            /\ UNCHANGED <<last, calls>>
    IN /\ \/ /\ me.pc = "check"
             /\ goto(IF HasKey(discovered_skills, me.key) THEN "load_count"
                     ELSE "create", <<>>)
             /\ UNCHANGED <<discovered_skills, clock>>
          \/ /\ me.pc = "load_count"
             /\ goto("store_count",
                     [count |-> discovered_skills[i].occurrence_count])
             /\ UNCHANGED <<discovered_skills, clock>>
          \/ /\ me.pc = "store_count"
             /\ discovered_skills' =
                    [discovered_skills EXCEPT ![i].occurrence_count = me.count + 1,
                                              ![i].last_seen = clock + 1]
             /\ clock' = clock + 1
             /\ goto("load_avg", <<>>)
          \/ /\ me.pc = "load_avg"
             /\ goto("store_avg",
                     [avg |-> RunningMean(discovered_skills[i].avg_confidence,
                                          discovered_skills[i].occurrence_count,
                                          me.confidence)])
             /\ UNCHANGED <<discovered_skills, clock>>
          \/ /\ me.pc = "store_avg"
             /\ discovered_skills' =
                    [discovered_skills EXCEPT
                        ![i].avg_confidence = me.avg,
                        ![i].sample_contexts =
                            IF me.context > 0 /\ Len(@) < MAX_SAMPLE_CONTEXTS
                            THEN Append(@, Min(me.context, SAMPLE_CONTEXT_LENGTH))
                            ELSE @]
             /\ UNCHANGED clock
             /\ ret(FALSE)
          \/ /\ me.pc = "create"
             /\ discovered_skills' =
                    LET new == NewDiscovery(me.key, me.name, me.skill, me.confidence,
                                            me.context, clock + 1)
                    IN IF HasKey(discovered_skills, me.key)
                       THEN [discovered_skills EXCEPT ![i] = new]
                       ELSE Append(discovered_skills, new)
             /\ clock' = clock + 1
             /\ ret(TRUE)
       /\ UNCHANGED <<config, fast_path, skills, patterns, known_skill_names,
                      slow_model, slow_available, answered, taxonomy_file, dim_skills,
                      stats, extraction_counter, mode>>

\* two threads recording sightings of one name, spelled in two ways
NextConc ==
    \E t \in {1, 2} :
        \/ \E name \in {nDb, nDbsp}, confidence \in {750, 900} :
               RecordCall(t, [skill_name |-> name, confidence |-> confidence], 0)
        \/ RecordStep(t)

SpecConc == InitMgr /\ [][NextConc]_vars

----------------------------------------------------------------------------
(* Claims *)

RetNames == [i \in 1..Len(last.ret_list) |-> last.ret_list[i].skill_name]

IsExtraction == last.op \in {"extract_skills", "force_discover"}

\* C1: every mention list extract_skills or force_discover returns, merged or
\* fast-path only, before or after promotions, has no two entries whose
\* skill_name are equal after lower-casing
C1_CaseInsensitiveUnique ==
    IsExtraction =>
        \A i, j \in 1..Len(last.ret_list) :
            i # j => Lower(RetNames[i]) # Lower(RetNames[j])

\* C1 witness: a fast-path-only list that holds a promoted skill's name
C1_Witness ==
    /\ last.op = "extract_skills"
    /\ last.decision = "false"
    /\ \E i \in 1..Len(discovered_skills), j \in 1..Len(last.ret_list) :
           /\ discovered_skills[i].is_promoted
           /\ Lower(RetNames[j]) = discovered_skills[i].key

\* the entries of the returned list for a lower-cased name
EntriesFor(key) == {i \in 1..Len(last.ret_list) : Lower(RetNames[i]) = key}

\* C2: a name reported by the matcher and by the backend for one document has
\* exactly one entry in the merged list, the matcher's, tagged taxonomy and
\* verified, and is not forwarded as a new discovery
C2_FastPathAuthority ==
    (IsExtraction /\ last.invoked) =>
        \A i \in 1..Len(last.fast), j \in 1..Len(last.gliner) :
            Lower(last.fast[i].skill_name) = Lower(last.gliner[j].skill_name) =>
                LET key == Lower(last.fast[i].skill_name)
                IN /\ Cardinality(EntriesFor(key)) = 1
                   /\ \A k \in EntriesFor(key) :
                          /\ last.ret_list[k].skill_name = last.fast[i].skill_name
                          /\ last.ret_list[k].mention_count = last.fast[i].mention_count
                          /\ last.ret_list[k].category = last.fast[i].category
                          /\ last.ret_list[k].extraction_method = "taxonomy"
                          /\ last.ret_list[k].verified
                   /\ \A k \in 1..Len(last.new_discoveries) :
                          Lower(last.new_discoveries[k].skill_name) # key

\* C2 witness: a discovery run in which both report one name in different case
C2_Witness ==
    /\ IsExtraction /\ last.invoked
    /\ \E i \in 1..Len(last.fast), j \in 1..Len(last.gliner) :
           /\ Lower(last.fast[i].skill_name) = Lower(last.gliner[j].skill_name)
           /\ last.fast[i].skill_name # last.gliner[j].skill_name

\* C3 as claimed: a returned mention is verified iff its name is known to the
\* matcher when extract_skills returns
C3_VerifiedIffKnownAtReturn ==
    last.op = "extract_skills" =>
        \A i \in 1..Len(last.ret_list) :
            last.ret_list[i].verified <=>
                (fast_path /\ Lower(RetNames[i]) \in known_skill_names)

\* C3 amended: a returned mention is verified iff its name was known to the
\* matcher when the call validated it, before any promotion of that call
C3_VerifiedIffKnownAtValidation ==
    last.op = "extract_skills" =>
        \A i \in 1..Len(last.ret_list) :
            last.ret_list[i].verified <=>
                (fast_path /\ Lower(RetNames[i]) \in last.known_before)

\* C3 witness: a call returns a discovery as unverified and promotes it
C3_Witness ==
    /\ last.op = "extract_skills"
    /\ \E i \in 1..Len(last.ret_list) :
           /\ ~last.ret_list[i].verified
           /\ Lower(RetNames[i]) \in known_skill_names
           /\ Lower(RetNames[i]) \notin last.known_before

\* what promotion writes to, besides the collection
PromotionTargets == <<taxonomy_file, dim_skills, skills, patterns, known_skill_names>>

\* the Discovered Skill the last promote_to_taxonomy call named, if any
ArgKey == normalize_skill_name(last.arg_name)

\* C4: no step turns is_promoted from true to false (so it turns true at most
\* once), and a promote_to_taxonomy call on a promoted skill returns true and
\* changes neither the collection nor the store, the table or the matcher
C4_PromotionMonotone ==
    [][ /\ \A i \in 1..Len(discovered_skills) :
               /\ i <= Len(discovered_skills')
               /\ discovered_skills'[i].key = discovered_skills[i].key
               /\ discovered_skills[i].is_promoted => discovered_skills'[i].is_promoted
        /\ ( /\ last'.op = "promote_to_taxonomy"
             /\ HasKey(discovered_skills, normalize_skill_name(last'.arg_name))
             /\ discovered_skills[IndexOf(discovered_skills,
                    normalize_skill_name(last'.arg_name))].is_promoted )
           => ( /\ last'.ret_bool
                /\ last'.writes = 0
                /\ UNCHANGED discovered_skills
                /\ UNCHANGED PromotionTargets )
      ]_vars

\* C4 witness: a promote_to_taxonomy call on a skill that was promoted before,
\* on a manager with a taxonomy store (a first promotion writes to it)
C4_Witness ==
    /\ last.op = "promote_to_taxonomy"
    /\ config.taxonomy_path
    /\ last.ret_bool
    /\ last.writes = 0
    /\ HasKey(discovered_skills, ArgKey)
    /\ discovered_skills[IndexOf(discovered_skills, ArgKey)].is_promoted

CandidateSet == Range(get_promotion_candidates(discovered_skills))

RecName(l) == Strip(GetSkillName(l.arg_skill))
RecKey(l) == Lower(RecName(l))

\* C6: an accepted record_discovery call creates the skill with count 1 and its
\* confidence as average, or raises the count by one and makes the average the
\* mean of all confidences so far (avg' * n' = avg * n + c); so 0.8, 0.9, 0.75
\* (sum 2.45) give count 3 and 2.45 / 3, a promotion candidate unless promoted
C6_RunningMean ==
    /\ [][ (last'.op = "record_discovery" /\ Len(RecName(last')) >= 2) =>
               LET key == RecKey(last')
                   c   == GetConfidence(last'.arg_skill)
                   new == discovered_skills'[IndexOf(discovered_skills', key)]
               IN /\ HasKey(discovered_skills', key)
                  /\ IF HasKey(discovered_skills, key)
                     THEN LET old == discovered_skills[IndexOf(discovered_skills, key)]
                          IN /\ new.occurrence_count = old.occurrence_count + 1
                             /\ new.avg_confidence[1] * new.occurrence_count
                                    * old.avg_confidence[2]
                                = (old.avg_confidence[1] * old.occurrence_count
                                     + c * old.avg_confidence[2])
                                    * new.avg_confidence[2]
                     ELSE /\ new.occurrence_count = 1
                          /\ new.avg_confidence = <<c, 1>>
         ]_vars
    /\ [](\A sk \in Range(discovered_skills) :
             (sk.occurrence_count = 3 /\ sk.avg_confidence[1] * 3
                    = 2450 * sk.avg_confidence[2]) =>
                 /\ sk.avg_confidence = <<2450, 3>>
                 /\ sk.is_promoted \/ sk \in CandidateSet)

\* C6 witness: a skill recorded with 0.8, 0.9 and 0.75, pending promotion
C6_Witness ==
    /\ last.op = "record_discovery"
    /\ \E sk \in CandidateSet :
           /\ sk.key = RecKey(last)
           /\ sk.occurrence_count = 3
           /\ sk.avg_confidence = <<2450, 3>>

\* C7: record_discovery with a name that is empty or shorter than 2 characters
\* once stripped returns false and leaves the collection as it was
C7_ShortNameRejected ==
    [][ (last'.op = "record_discovery" /\ Len(RecName(last')) < 2) =>
            /\ ~last'.ret_bool
            /\ UNCHANGED discovered_skills
      ]_vars

\* C7 witness: a call with a one-letter name between spaces, on a collection
\* that holds skills
C7_Witness ==
    /\ last.op = "record_discovery"
    /\ GetSkillName(last.arg_skill) = nRsp
    /\ ~last.ret_bool
    /\ discovered_skills # <<>>

\* C8: promote_to_taxonomy with a name that is no key of the collection returns
\* false and changes neither the collection nor the store, the table or the
\* matcher
C8_UnknownPromotion ==
    [][ ( /\ last'.op = "promote_to_taxonomy"
          /\ ~HasKey(discovered_skills, normalize_skill_name(last'.arg_name)) )
        => ( /\ ~last'.ret_bool
             /\ UNCHANGED discovered_skills
             /\ UNCHANGED PromotionTargets )
      ]_vars

\* C8 witness: a rejected promotion on a manager with a matcher, a store and a
\* table
C8_Witness ==
    /\ last.op = "promote_to_taxonomy"
    /\ ~last.ret_bool
    /\ ~HasKey(discovered_skills, ArgKey)
    /\ config.taxonomy_path /\ config.db_connection
    /\ discovered_skills # <<>>

\* C9: the backend's extract_skills is called only while is_available() is true
\* (the model is loaded), in extract_skills and in force_discover, under every
\* routing configuration
C9_NeverInvokedUnavailable ==
    (IsExtraction /\ last.invoked) =>
        /\ last.available_at_call = "true"
        /\ slow_model

\* C9 witness: a forced-discovery configuration whose backend failed to load
\* processes a document without invoking it
C9_Witness ==
    /\ IsExtraction
    /\ config.enable_gliner /\ config.always_discover
    /\ slow_available = "false"
    /\ ~last.invoked

\* C10: with the backend enabled and available, extract_skills decides for
\* discovery whenever the fast path finds fewer skills than
\* min_skills_for_fast_only, whatever the sample rate and counter, and whenever
\* always_discover is set
C10_RoutingThreshold ==
    ( /\ last.op = "extract_skills"
      /\ config.enable_gliner
      /\ last.available_at_call = "true"
      /\ \/ Len(last.fast) < config.min_skills_for_fast_only
         \/ config.always_discover )
    => (last.decision = "true" /\ last.invoked)

\* C10 witness: 2 skills found, threshold 5, sampling disabled, not forced
C10_Witness ==
    /\ last.op = "extract_skills"
    /\ last.decision = "true"
    /\ Len(last.fast) = 2
    /\ config.min_skills_for_fast_only = 5
    /\ config.discovery_sample_rate = <<0, 1>>
    /\ ~config.always_discover

\* round(1 / rate) for a positive rate <<num, den>>, as Python rounds: to the
\* nearest integer, a tie to the even one
RoundInterval(rate) ==
    LET lo == rate[2] \div rate[1]
        r2 == 2 * (rate[2] % rate[1])
    IN IF r2 < rate[1] THEN lo
       ELSE IF r2 > rate[1] THEN lo + 1
       ELSE IF lo % 2 = 0 THEN lo ELSE lo + 1

\* C11: for a positive sample rate, a document that is neither forced nor below
\* the minimum-skills threshold (backend enabled and available) invokes discovery
\* exactly when the sampling counter, counted with this document, is a multiple
\* of round(1 / sample_rate)
C11_SampleIntervalRounded ==
    ( /\ last.op = "extract_skills"
      /\ config.enable_gliner
      /\ last.available_at_call = "true"
      /\ ~config.always_discover
      /\ Len(last.fast) >= config.min_skills_for_fast_only
      /\ config.discovery_sample_rate[1] > 0
      /\ RoundInterval(config.discovery_sample_rate) > 0 )
    => (last.invoked <=>
            extraction_counter % RoundInterval(config.discovery_sample_rate) = 0)

\* C13: no extract_skills or force_discover call ends in an exception, whatever
\* fails in a promotion it triggers (the taxonomy file write, the INSERT, the
\* rollback after a failed INSERT); it returns the document's merged list
C13_PromotionFailureContained ==
    IsExtraction => ~last.raised

\* the backend failed on the document of the step: the prediction raised, or the
\* loop over its entities did
BackendFails(doc) ==
    \/ ~doc.prediction.ok
    \/ \E i \in 1..Len(doc.prediction.entities) : EntityRaises(doc.prediction.entities[i])

\* the last call's fast-path result as the fast-path-only return gives it
TaggedFast == [i \in 1..Len(last.fast) |-> Tag(last.fast[i], TRUE, "taxonomy")]

\* C12: when the backend fails on a document routed to discovery, it yields no
\* candidate, the call returns normally, its list is the fast-path result with
\* every entry tagged taxonomy / verified, and the collection of Discovered Skills
\* is as before
C12_BackendFailureFallsBack ==
    [][ \A doc \in {d \in Docs : BackendFails(d)} :
          ( /\ ExtractSkills(doc) \/ ForceDiscover(doc)
            /\ last'.invoked
            /\ TextLen(doc.text) >= MIN_TEXT_LENGTH )
          => ( /\ last'.gliner = <<>>
               /\ ~last'.raised
               /\ last'.ret_list = TaggedFast'
               /\ \A i \in 1..Len(last'.ret_list) :
                      /\ last'.ret_list[i].verified
                      /\ last'.ret_list[i].extraction_method = "taxonomy"
               /\ UNCHANGED <<discovered_skills, clock, taxonomy_file, dim_skills,
                              skills, patterns, known_skill_names>> )
      ]_vars

\* C12 witness: the document mentioning Jv once, routed to discovery, on which
\* the loop over the entities raised after a candidate had been read; the
\* fast-path result is what the call returned
C12_Witness ==
    /\ IsExtraction
    /\ last.invoked
    /\ last.gliner = <<>>
    /\ Len(last.fast) = 1
    /\ last.fast[1].skill_name = nJv
    /\ last.fast[1].mention_count = 1
    /\ last.ret_list = TaggedFast

\* C14: every document is processed by an orchestrator holding a loaded taxonomy:
\* a matcher exists and has patterns (a missing or structurally invalid source
\* aborts the construction, so no call happens)
C14_NoDocumentWithoutTaxonomy ==
    IsExtraction => (fast_path /\ patterns # <<>>)

\* the context the caller gave for the i-th text of a batch ('' when it gave none)
ContextAt(contexts, i) ==
    IF contexts.given /\ i <= Len(contexts.list) THEN contexts.list[i] ELSE 0

\* single-document extract_skills calls on the first n texts, in order:
\* [st, results]
RECURSIVE SingleCalls(_, _, _, _)
SingleCalls(st, texts, contexts, n) ==
    IF n = 0 THEN [st |-> st, results |-> <<>>]
    ELSE LET prev == SingleCalls(st, texts, contexts, n - 1)
             r    == extract_skills(config, fast_path, slow_model, slow_available,
                                    prev.st,
                                    [text |-> texts[n].text,
                                     prediction |-> texts[n].prediction,
                                     context |-> ContextAt(contexts, n)])
         IN [st      |-> [w |-> r.w, clock |-> r.clock, stats |-> r.stats,
                          counter |-> r.counter],
             results |-> Append(prev.results, r.ret)]

\* C15: extract_skills_batch returns one list per input text, in input order,
\* whatever the contexts argument (omitted, as long as texts, shorter, longer),
\* and its lists and the state it leaves are those of single extract_skills calls
\* on the texts in order
C15_BatchOnePerText ==
    [][ last'.op = "extract_skills_batch" =>
          LET texts == last'.arg_texts
              ref   == SingleCalls(OrchState, texts, last'.arg_contexts, Len(texts))
          IN /\ Len(last'.ret_batch) = Len(texts)
             /\ last'.ret_batch = ref.results
             /\ OrchState' = ref.st
      ]_vars

\* C16: the backend's availability is computed once and cached: once is_available()
\* has returned a value, every later is_available() call on the same backend
\* returns that value, whatever extract and batch-extract calls came in between;
\* and is_available() returns true only if the model is loaded
C16_AvailabilityCached ==
    [][ last'.op = "is_available" =>
          /\ answered # "none" => last'.ret_bool = (answered = "true")
          /\ last'.ret_bool => slow_model'
      ]_vars

\* C17: over the manager's operations (record, record batch, promote, auto-promote,
\* stats, export) no Discovered Skill leaves the collection and no occurrence_count
\* decreases; an accepted record call for a key already in the collection raises
\* that key's count by exactly one and changes no other key's entry
C17_CountsMonotone ==
    [][ /\ \A i \in 1..Len(discovered_skills) :
              LET key == discovered_skills[i].key
              IN /\ HasKey(discovered_skills', key)
                 /\ discovered_skills'[IndexOf(discovered_skills', key)].occurrence_count
                        >= discovered_skills[i].occurrence_count
        /\ ( /\ last'.op = "record_discovery"
             /\ Len(RecName(last')) >= 2
             /\ HasKey(discovered_skills, RecKey(last')) )
           => /\ Len(discovered_skills') = Len(discovered_skills)
              /\ \A i \in 1..Len(discovered_skills) :
                    IF discovered_skills[i].key = RecKey(last')
                    THEN discovered_skills'[i].occurrence_count
                             = discovered_skills[i].occurrence_count + 1
                    ELSE discovered_skills'[i] = discovered_skills[i]
      ]_vars

\* C17 witness: an accepted record call has just raised the count of a key that was
\* in the collection, which holds another Discovered Skill as well
C17_Witness ==
    /\ last.op = "record_discovery"
    /\ Len(RecName(last)) >= 2
    /\ HasKey(discovered_skills, RecKey(last))
    /\ discovered_skills[IndexOf(discovered_skills, RecKey(last))].occurrence_count >= 2
    /\ Len(discovered_skills) >= 2

\* the names of the store's entries, lower-cased
StoreNames(file) == [i \in 1..Len(file) |-> Lower(file[i].name)]

\* C18: the promotion write-back is idempotent: promoting a Discovered Skill whose
\* name the taxonomy store already holds (compared case-insensitively) leaves the
\* store unchanged; after every step the store holds at most one entry per name,
\* and every entry it held before the step is still there, unchanged
C18_WriteBackIdempotent ==
    [][ /\ Len(taxonomy_file') >= Len(taxonomy_file)
        /\ SubSeq(taxonomy_file', 1, Len(taxonomy_file)) = taxonomy_file
        /\ \A i, j \in 1..Len(taxonomy_file') :
              i # j => StoreNames(taxonomy_file')[i] # StoreNames(taxonomy_file')[j]
        /\ ( /\ last'.op = "promote_to_taxonomy"
             /\ HasKey(discovered_skills, normalize_skill_name(last'.arg_name))
             /\ \E i \in 1..Len(taxonomy_file) :
                    StoreNames(taxonomy_file)[i]
                        = normalize_skill_name(last'.arg_name) )
           => taxonomy_file' = taxonomy_file
      ]_vars

\* C18 witness: the manager, holding a taxonomy path, has just promoted the
\* Discovered Skill 'python' while the store held 'Python'; the write was made and
\* skipped, and the store, which an earlier promotion had extended, still holds
\* 'Python' once
C18_Witness ==
    /\ last.op = "promote_to_taxonomy"
    /\ config.taxonomy_path
    /\ last.writes >= 1
    /\ ArgKey = npy
    /\ Len(taxonomy_file) > Len(TaxonomyData)
    /\ Cardinality({i \in 1..Len(taxonomy_file) : StoreNames(taxonomy_file)[i] = npy}) = 1

\* the positions of text where term occurs, letter case ignored, with no
\* identifier character (letter, digit, underscore) right before or right after
Delimited(term, text) ==
    {i \in 1..Len(text) :
        /\ i + Len(term) - 1 <= Len(text)
        /\ Lower(SubSeq(text, i, i + Len(term) - 1)) = Lower(term)
        /\ i = 1 \/ ~IsWordChar(text[i - 1])
        /\ i + Len(term) - 1 = Len(text) \/ ~IsWordChar(text[i + Len(term)])}

\* C19: for every term under the generic word-boundary rule and every text, the
\* matcher counts exactly the occurrences of the term, in any letter case, that are
\* delimited on both sides by a non-identifier character or an end of the text: an
\* occurrence inside a longer identifier is not reported, every standalone case
\* variant is counted
C19_WordBoundary ==
    last.op = "findall" =>
        last.ret_count = Cardinality(Delimited(last.arg_term, last.arg_text))

\* the sum of the occurrence counts of a collection
TotalCount(ds) == SumSeq([i \in 1..Len(ds) |-> ds[i].occurrence_count])

\* C20: record_discoveries_batch returns (new_count, updated_count): new_count is
\* the number of Discovered Skills the call created, updated_count the number of
\* candidates that incremented the occurrence_count of an existing Discovered
\* Skill; a rejected candidate is counted in neither
C20_BatchTally ==
    [][ last'.op = "record_discoveries_batch" =>
          /\ last'.ret_counts[1] = Len(discovered_skills') - Len(discovered_skills)
          /\ last'.ret_counts[2] =
                 (TotalCount(discovered_skills') - TotalCount(discovered_skills))
                 - (Len(discovered_skills') - Len(discovered_skills))
      ]_vars

\* C21: on a manager configured with a taxonomy store, a Discovered Skill whose
\* is_promoted is true has an entry with its name in the store: the store is
\* written before is_promoted turns true
C21_PromotedInStore ==
    config.taxonomy_path =>
        \A i \in 1..Len(discovered_skills) :
            discovered_skills[i].is_promoted =>
                \E j \in 1..Len(taxonomy_file) :
                    Lower(taxonomy_file[j].name) = Lower(discovered_skills[i].name)

\* C22: no update of record is lost when two threads record the same normalized
\* name concurrently: once the calls have returned there is exactly one Discovered
\* Skill for the key, its occurrence_count is the number of calls made (two more
\* than before the two calls, the creation counting as one), and its avg_confidence
\* is the mean of all the confidences recorded
C22_NoLostUpdate ==
    ( /\ \A t \in DOMAIN threads.th : threads.th[t].pc = "idle"
      /\ threads.done # <<>> )
    => /\ Len(discovered_skills) = 1
       /\ discovered_skills[1].key = ndb
       /\ discovered_skills[1].occurrence_count = Len(threads.done)
       /\ discovered_skills[1].avg_confidence
              = Frac(SumSeq(threads.done), Len(threads.done))

\* C23: the sampling counter is a call counter: every document processed by
\* extract_skills raises it by exactly one, whatever routing branch the document
\* takes, and no step lowers it
C23_CallCounter ==
    [][ /\ extraction_counter' >= extraction_counter
        /\ last'.op = "extract_skills"
              => extraction_counter' = extraction_counter + 1
      ]_vars

\* C24: a record call for a Discovered Skill that is already promoted returns false
\* and still updates its statistics (occurrence_count + 1, avg_confidence the new
\* mean, last_seen the time of the call) while is_promoted stays true; a promoted
\* skill is never among the promotion candidates; and auto_promote neither returns
\* it nor writes a store entry or a matcher pattern for it
C24_PromotedStillCounted ==
    [][ /\ ( /\ last'.op = "record_discovery"
             /\ Len(RecName(last')) >= 2
             /\ HasKey(discovered_skills, RecKey(last'))
             /\ discovered_skills[IndexOf(discovered_skills, RecKey(last'))].is_promoted )
           => LET old == discovered_skills[IndexOf(discovered_skills, RecKey(last'))]
                  new == discovered_skills'[IndexOf(discovered_skills', RecKey(last'))]
                  c   == GetConfidence(last'.arg_skill)
              IN /\ ~last'.ret_bool
                 /\ new.is_promoted
                 /\ new.occurrence_count = old.occurrence_count + 1
                 /\ new.avg_confidence[1] * old.avg_confidence[2] * new.occurrence_count
                      = (old.avg_confidence[1] * old.occurrence_count
                           + c * old.avg_confidence[2]) * new.avg_confidence[2]
                 /\ new.last_seen = clock'
                 /\ new.last_seen > old.last_seen
        /\ \A sk \in Range(get_promotion_candidates(discovered_skills')) :
               ~sk.is_promoted
        /\ last'.op = "auto_promote" =>
               \A i \in 1..Len(discovered_skills) :
                   discovered_skills[i].is_promoted =>
                       LET name == discovered_skills[i].name
                           entries(f) == {j \in 1..Len(f) : f[j].name = name}
                           pats(ps)   == {j \in 1..Len(ps) : ps[j].canonical = name}
                       IN /\ name \notin Range(last'.ret_names)
                          /\ entries(taxonomy_file') = entries(taxonomy_file)
                          /\ pats(patterns') = pats(patterns)
      ]_vars

\* C24 witness: a record call has just returned false for a promoted skill, which
\* now meets both promotion thresholds and is not a candidate
C24_Witness ==
    /\ last.op = "record_discovery"
    /\ ~last.ret_bool
    /\ HasKey(discovered_skills, RecKey(last))
    /\ LET sk == discovered_skills[IndexOf(discovered_skills, RecKey(last))]
       IN /\ sk.is_promoted
          /\ sk.occurrence_count >= MIN_OCCURRENCES_FOR_PROMOTION
          /\ FracGeq(sk.avg_confidence, MIN_CONFIDENCE_FOR_PROMOTION)
          /\ sk \notin CandidateSet

\* C25: reset_stats sets the six statistics counters to zero and changes nothing
\* else: the Discovered Skills, the matcher's taxonomy, patterns and known names,
\* the sampling counter, the mode, the backend, the store and the table are as
\* before, so the routing decision for a next document with any number of fast-path
\* skills is the one that would have been taken without the reset
C25_ResetOnlyStats ==
    [][ last'.op = "reset_stats" =>
          /\ DOMAIN stats' = {"total_extractions", "fast_path_only", "gliner_invoked",
                              "new_discoveries", "verified_skills", "unverified_skills"}
          /\ \A k \in DOMAIN stats' : stats'[k] = 0
          /\ discovered_skills' = discovered_skills
          /\ skills' = skills
          /\ patterns' = patterns
          /\ known_skill_names' = known_skill_names
          /\ extraction_counter' = extraction_counter
          /\ mode' = mode
          /\ config' = config
          /\ fast_path' = fast_path
          /\ slow_model' = slow_model
          /\ slow_available' = slow_available
          /\ taxonomy_file' = taxonomy_file
          /\ dim_skills' = dim_skills
          /\ \A n \in 0..5 :
                 should_invoke_gliner(config', slow_model', slow_available',
                                      extraction_counter', [i \in 1..n |-> i])
                   = should_invoke_gliner(config, slow_model, slow_available,
                                          extraction_counter, [i \in 1..n |-> i])
      ]_vars

\* C25 witness: reset_stats has just run on an orchestrator that had routed a
\* document by the sampling rule and recorded a discovery
C25_Witness ==
    /\ last.op = "reset_stats"
    /\ stats = ZeroStats
    /\ extraction_counter > 0
    /\ discovered_skills # <<>>

\* C26: in an orchestrator built with a loaded taxonomy, the name of a promoted
\* Discovered Skill is known to the matcher in every later state, and an extract or
\* force_discover call made after the promotion neither returns that name, in any
\* letter case, with verified = false, nor forwards it to the lifecycle manager (it
\* is not among the call's new discoveries and its occurrence_count is unchanged)
C26_PromotedStaysKnown ==
    [][ fast_path =>
          \A i \in 1..Len(discovered_skills) :
              discovered_skills[i].is_promoted =>
                  LET key == discovered_skills[i].key
                  IN /\ Lower(discovered_skills[i].name) \in known_skill_names
                     /\ Lower(discovered_skills[i].name) \in known_skill_names'
                     /\ last'.op \in {"extract_skills", "force_discover"} =>
                          /\ \A j \in 1..Len(last'.ret_list) :
                                 Lower(last'.ret_list[j].skill_name) = key
                                     => last'.ret_list[j].verified
                          /\ \A j \in 1..Len(last'.new_discoveries) :
                                 normalize_skill_name(last'.new_discoveries[j].skill_name)
                                     # key
                          /\ discovered_skills'[i].occurrence_count
                                 = discovered_skills[i].occurrence_count
      ]_vars

\* C26 witness: the backend reports the name of a promoted skill and the call
\* returns it as verified
C26_Witness ==
    /\ IsExtraction
    /\ fast_path
    /\ \E i \in 1..Len(discovered_skills), j \in 1..Len(last.ret_list) :
           /\ discovered_skills[i].is_promoted
           /\ Lower(RetNames[j]) = discovered_skills[i].key
           /\ last.ret_list[j].extraction_method = "gliner_verified"

\* C27: with auto-promotion enabled, when an extract_skills or force_discover call
\* has returned there is no promotion candidate: no un-promoted Discovered Skill
\* with occurrence_count >= 3 and avg_confidence >= 0.75 is left pending
C27_NoPendingCandidate ==
    (IsExtraction /\ ~last.raised /\ config.auto_promote) =>
        /\ get_promotion_candidates(discovered_skills) = <<>>
        /\ \A i \in 1..Len(discovered_skills) :
               ( /\ discovered_skills[i].occurrence_count
                        >= MIN_OCCURRENCES_FOR_PROMOTION
                 /\ FracGeq(discovered_skills[i].avg_confidence,
                            MIN_CONFIDENCE_FOR_PROMOTION) )
               => discovered_skills[i].is_promoted

\* the lower-cased aliases of the matcher's taxonomy: the terms of its patterns
\* other than the canonical names
AliasTerms ==
    {Lower(patterns[i].pattern.term) :
        i \in {j \in 1..Len(patterns) :
                  Lower(patterns[j].pattern.term) # Lower(patterns[j].canonical)}}

\* C28: a discovery candidate whose name is, in any letter case, an alias of a
\* Taxonomy Entry is not returned as an unverified mention, is not forwarded as a
\* new discovery, and is never a Discovered Skill (so it is never promoted into the
\* taxonomy as an entry of its own)
C28_AliasResolved ==
    /\ IsExtraction =>
           /\ \A i \in 1..Len(last.ret_list) :
                  Lower(RetNames[i]) \in AliasTerms => last.ret_list[i].verified
           /\ \A i \in 1..Len(last.new_discoveries) :
                  Lower(last.new_discoveries[i].skill_name) \notin AliasTerms
    /\ \A i \in 1..Len(discovered_skills) :
           discovered_skills[i].key \notin AliasTerms

\* C29: in every state reached by extract_skills, extract_skills_batch,
\* force_discover and reset_stats calls, total_extractions is the sum of
\* fast_path_only and gliner_invoked, and new_discoveries is at most
\* unverified_skills
C29_StatsConsistent ==
    /\ stats.total_extractions = stats.fast_path_only + stats.gliner_invoked
    /\ stats.new_discoveries <= stats.unverified_skills

\* C29 witness: documents have gone both ways, and a discovery has been reported
\* unverified more often than it was new
C29_Witness ==
    /\ ~last.raised
    /\ stats.fast_path_only >= 1
    /\ stats.gliner_invoked >= 2
    /\ stats.new_discoveries >= 1
    /\ stats.unverified_skills > stats.new_discoveries

\* C30: occurrence_count counts documents: an extract_skills or force_discover call
\* raises the occurrence_count of a Discovered Skill by one when the call returned
\* its name as an unverified mention and by nothing otherwise (a skill the call
\* created counting from zero), so the count is the number of such calls, is never
\* more than the number of calls made, and 3 is reached on the third document at
\* the earliest
C30_CountsDocuments ==
    [][ last'.op \in {"extract_skills", "force_discover"} =>
          \A i \in 1..Len(discovered_skills') :
              LET key      == discovered_skills'[i].key
                  before   == IF HasKey(discovered_skills, key)
                              THEN discovered_skills[IndexOf(discovered_skills, key)]
                                       .occurrence_count
                              ELSE 0
                  returned == \E j \in 1..Len(last'.ret_list) :
                                  /\ ~last'.ret_list[j].verified
                                  /\ normalize_skill_name(last'.ret_list[j].skill_name)
                                         = key
              IN /\ discovered_skills'[i].occurrence_count
                        = before + (IF returned THEN 1 ELSE 0)
                 /\ discovered_skills'[i].occurrence_count <= calls'
      ]_vars

====
